---- MODULE Spec2Model ----
(***************************************************************************)
(* A model of the listing-finder service:                                  *)
(*   - runListingAgent, the bounded tool-calling loop (src/src/agent.ts);  *)
(*   - normalizeAndDedupeListings, the listing normaliser                  *)
(*     (src/unnamed/part_001, and its twin in src/unnamed/part_002);       *)
(*   - runWorkflow and the POST /runWorkflow handlers (server.ts);         *)
(*   - fetchHtmlPage (part_002) and performWebSearch (agent.ts).           *)
(* Each component has its own specification over the shared variables.     *)
(***************************************************************************)
EXTENDS Integers, Sequences, FiniteSets, TLC

VARIABLES
    \* ---- runListingAgent ----
    apiKey,       \* process.env.OPENAI_API_KEY: Undefined, "" or a key
    tavilyKey,    \* process.env.TAVILY_API_KEY is set
    pc,           \* position of the run: "start", "loop", "tools", "done", "threw"
    iterations,   \* the local `iterations`
    messages,     \* the local `messages` (the conversation)
    warnings,     \* the local `warnings`
    pending,      \* tool calls of the current turn not yet visited by the for loop
    choice,       \* what the last model call produced
    result,       \* the value the run returned
    outcome,      \* "Running", "Completed", "Failed", "Threw"
    modelCalls,   \* number of chat-completion calls issued
    toolExecs,    \* number of executor invocations
    toolCalls,    \* number of tool calls the model has requested in this run
    failedCall,   \* history: the counters as they were when a model call failed
    stopSeen,     \* history: some response carried finish reason stop or length
    \* ---- normalizeAndDedupeListings ----
    npc,          \* "loop", "returned", "threw"
    seen,         \* the map `seen`: entries [key, idx]
    out,          \* the array `out`
    consumed,     \* number of items the caller supplied so far
    stopped,      \* the for loop was left through `break`
    ignored,      \* the last item of the input the loop never reached, if any
    normResult,   \* the returned array
    items,        \* the argument `items` when the list is given up front
    \* ---- runWorkflow ----
    wpc,              \* "idle", "start", "guarded", "normalizing", "returned", "threw"
    workflow,         \* the argument `workflow`
    guardrailsResult, \* what runGuardrails resolved to
    criteria,         \* the local `criteria`
    response,         \* the value runWorkflow returned
    \* ---- POST /runWorkflow (server.ts) ----
    spc,          \* "idle", "receiving", "handling", "awaiting", "responded", "destroyed"
    request,      \* the server the request reached and the chunks still to arrive
    chunks,       \* the local `chunks` (the parsed body text of express.json)
    total,        \* the local `total`
    body,         \* the parsed body the handler works on
    responses,    \* the responses written for the request
    invoked,      \* number of times the handler called runWorkflow
    \* ---- fetchHtmlPage (part_002) ----
    fpc,   \* position: "idle", "loop", "inflight", "reading", "sleeping", "returned", "threw"
    fetchUrl,   \* the argument `url`
    attempt,   \* the loop variable `attempt`
    aborted,   \* controller.signal.aborted
    timerArmed,   \* the timeout of line 191 is pending
    lastErr,   \* the local `lastErr`
    fetches,   \* number of calls of fetch
    attemptLog,   \* history: how each attempt was issued and how it ended
    fetchResult,   \* what the call returned or threw
    \* ---- performWebSearch (agent.ts) ----
    qpc,   \* position: "idle", "start", "inflight", "done"
    searchArgs,   \* the argument `args`
    searchKey,   \* process.env.TAVILY_API_KEY
    backend,   \* history: how the search backend answered
    sent,   \* the requests sent to the search backend
    searchResult,   \* what performWebSearch returned or threw
    \* ---- two invocations of runListingAgent ----
    runs,   \* per invocation: position, `iterations`, calls still to execute, result
    convs,   \* the `messages` arrays
    warns,   \* the `warnings` arrays
    heard,   \* history: per invocation, what its model and tool calls answered
    \* ---- normaliser applied to its own output ----
    pass,   \* which pass of the normaliser is running
    firstResult,   \* what the first pass returned
    \* ---- the normalizeAndDedupeListings tool (part_002) ----
    toolOutput    \* what the tool's execute returned or threw

agentVars == <<apiKey, tavilyKey, pc, iterations, messages, warnings, pending,
               choice, result, outcome, modelCalls, toolExecs, toolCalls, failedCall, stopSeen>>
normVars == <<npc, seen, out, consumed, stopped, ignored, normResult, items>>
flowVars == <<wpc, workflow, guardrailsResult, criteria, response>>
serverVars == <<spc, request, chunks, total, body, responses, invoked>>
fetchVars == <<fpc, fetchUrl, attempt, aborted, timerArmed, lastErr, fetches, attemptLog, fetchResult>>
searchVars == <<qpc, searchArgs, searchKey, backend, sent, searchResult>>
pairVars == <<runs, convs, warns, heard>>
roundVars == <<pass, firstResult>>
toolVars == <<toolOutput>>
auxVars == <<serverVars, fetchVars, searchVars, pairVars, roundVars, toolVars>>
vars == <<agentVars, normVars, flowVars, auxVars>>

Null == "<null>"
Undefined == "<undefined>"

\* No request has reached the server.
ServerIdle ==
    /\ spc = "idle"
    /\ request = [server |-> "none", incoming |-> <<>>]
    /\ chunks = <<>>
    /\ total = 0
    /\ body = [kind |-> "none"]
    /\ responses = <<>>
    /\ invoked = 0

FetchIdle ==
    /\ fpc = "idle"
    /\ fetchUrl = ""
    /\ attempt = 0
    /\ aborted = FALSE
    /\ timerArmed = FALSE
    /\ lastErr = Null
    /\ fetches = 0
    /\ attemptLog = <<>>
    /\ fetchResult = [kind |-> "none"]

SearchIdle ==
    /\ qpc = "idle"
    /\ searchArgs = [isNull |-> TRUE]
    /\ searchKey = Undefined
    /\ backend = "none"
    /\ sent = <<>>
    /\ searchResult = [kind |-> "none"]

PairIdle ==
    /\ runs = <<>>
    /\ convs = <<>>
    /\ warns = <<>>
    /\ heard = <<>>

RoundIdle ==
    /\ pass = 1
    /\ firstResult = <<>>

ToolIdle ==
    /\ toolOutput = [kind |-> "none"]

\* The components outside the one a specification is about are at rest.
AuxIdle == ServerIdle /\ FetchIdle /\ SearchIdle /\ PairIdle /\ RoundIdle /\ ToolIdle
serverRest == <<fetchVars, searchVars, pairVars, roundVars, toolVars>>
ServerRestIdle == FetchIdle /\ SearchIdle /\ PairIdle /\ RoundIdle /\ ToolIdle
fetchRest == <<serverVars, searchVars, pairVars, roundVars, toolVars>>
FetchRestIdle == ServerIdle /\ SearchIdle /\ PairIdle /\ RoundIdle /\ ToolIdle
searchRest == <<serverVars, fetchVars, pairVars, roundVars, toolVars>>
SearchRestIdle == ServerIdle /\ FetchIdle /\ PairIdle /\ RoundIdle /\ ToolIdle
pairRest == <<serverVars, fetchVars, searchVars, roundVars, toolVars>>
PairRestIdle == ServerIdle /\ FetchIdle /\ SearchIdle /\ RoundIdle /\ ToolIdle
roundRest == <<serverVars, fetchVars, searchVars, pairVars, toolVars>>
RoundRestIdle == ServerIdle /\ FetchIdle /\ SearchIdle /\ PairIdle /\ ToolIdle
toolRest == <<serverVars, fetchVars, searchVars, pairVars, roundVars>>
ToolRestIdle == ServerIdle /\ FetchIdle /\ SearchIdle /\ PairIdle /\ RoundIdle

(***************************************************************************)
(* Bounds of the model.                                                    *)
(***************************************************************************)
\* Tool calls the model may request over one run (any split over the turns).
MaxToolCalls == 6
\* Raw items one call of the normaliser is given.
MaxItems == 14
\* Length of the raw lists given up front.
MaxListLen == 3

(***************************************************************************)
(*                          runListingAgent                                *)
(***************************************************************************)
MAX_AGENT_STEPS == 6

\* `!apiKey`: undefined and the empty string are both falsy.
KeyMissingUnsetOnly(k) == k = Undefined
KeyMissing(k) == k = Undefined \/ k = ""

\* The opaque text of buildSystemPrompt(criteria).
SystemPrompt == "system: research agent; criteria: Location: Laval, QC"
UserPrompt == "2 bedroom condo"

Msg(role, content, id, calls) ==
    [role |-> role, content |-> content, tool_call_id |-> id, tool_calls |-> calls]

InitialMessages ==
    << Msg("system", SystemPrompt, Null, <<>>),
       Msg("user", "User request: " \o UserPrompt \o "\nRemember to return only JSON.",
           Null, <<>>) >>

\* The keys of `toolExecutors`.
ToolExecutors == {"search_listings", "fetch_listing_page"}

\* `while (iterations < MAX_AGENT_STEPS)`
LoopGuardOffByOne(it) == it <= MAX_AGENT_STEPS
LoopGuard(it) == it < MAX_AGENT_STEPS

\* String(error?.message || error) for an Error with message m.
ErrorText(m) == IF m # "" THEN m ELSE "Error"

\* The value returned after the loop (and when the key is missing).
FailedResultKeepsRaw(w) ==
    [listings |-> <<>>, sources |-> <<>>, notes_en |-> Null, notes_fr |-> Null,
     warnings |-> w, rawResponse |-> ""]
FailedResult(w) ==
    [listings |-> <<>>, sources |-> <<>>, notes_en |-> Null, notes_fr |-> Null,
     warnings |-> w, rawResponse |-> Null]

NoResult ==
    [listings |-> <<>>, sources |-> <<>>, notes_en |-> Null, notes_fr |-> Null,
     warnings |-> <<>>, rawResponse |-> Undefined]

NoChoice == [kind |-> "none", finish_reason |-> Undefined, content |-> Undefined, ncalls |-> 0]

(***************************************************************************)
(* JSON texts the model can answer with, and JSON.parse on them.           *)
(***************************************************************************)
ContentNotJson == "Sorry, I could not find any listing."
ContentEmpty == ""
ContentNullLit == "null"
ContentNumber == "42"
ContentEmptyObj == "{}"
ContentAnswer ==
    "{\"listings\":[{\"mls\":\"MLS123\",\"url\":\"https://x.com\",\"price\":500000}],"
    \o "\"sources\":[{\"url\":\"https://x.com\"}],\"notes_en\":\"ok\",\"notes_fr\":\"ok\"}"
ContentOddAnswer ==
    "{\"listings\":\"none\",\"sources\":[7,{\"url\":5},{\"url\":\"\"},"
    \o "{\"url\":\"https://y.com\",\"title\":\"Y\",\"details\":3}],\"notes_en\":3}"

\* message.content as the API may deliver it: a text, or no content at all.
Contents == {Undefined, ContentEmpty, ContentNotJson, ContentNullLit, ContentNumber,
             ContentEmptyObj, ContentAnswer, ContentOddAnswer}

\* A field of a parsed object: present or not, an array or not, a string or not.
Absent == [present |-> FALSE, isArray |-> FALSE, isString |-> FALSE, items |-> <<>>, str |-> ""]
ArrayField(elems) == [present |-> TRUE, isArray |-> TRUE, isString |-> FALSE, items |-> elems, str |-> ""]
StringField(s) == [present |-> TRUE, isArray |-> FALSE, isString |-> TRUE, items |-> <<>>, str |-> s]
OtherField == [present |-> TRUE, isArray |-> FALSE, isString |-> FALSE, items |-> <<>>, str |-> ""]

JsonObject(l, s, en, fr) ==
    [t |-> "object", listings |-> l, sources |-> s, notes_en |-> en, notes_fr |-> fr]
JsonNull == [t |-> "null"]
JsonNumber == [t |-> "number"]
EmptyObject == JsonObject(Absent, Absent, Absent, Absent)

\* An element of a `sources` array: an object or not, with the fields the code reads.
SourceItem(isObj, url, title, details) ==
    [isObject |-> isObj, url |-> url, title |-> title, details |-> details]

Listing123 == [mls |-> "MLS123", url |-> "https://x.com", price |-> 500000]

\* JSON.parse throws on these texts.
JsonParseThrows(text) == text \in {ContentEmpty, ContentNotJson}

\* JSON.parse(text) where it does not throw.
JsonParse(text) ==
    CASE text = ContentNullLit -> JsonNull
      [] text = ContentNumber -> JsonNumber
      [] text = ContentEmptyObj -> EmptyObject
      [] text = ContentAnswer ->
            JsonObject(ArrayField(<<Listing123>>),
                       ArrayField(<<SourceItem(TRUE, StringField("https://x.com"), Absent, Absent)>>),
                       StringField("ok"), StringField("ok"))
      [] text = ContentOddAnswer ->
            JsonObject(StringField("none"),
                       ArrayField(<< SourceItem(FALSE, Absent, Absent, Absent),
                                     SourceItem(TRUE, OtherField, Absent, Absent),
                                     SourceItem(TRUE, StringField(""), Absent, Absent),
                                     SourceItem(TRUE, StringField("https://y.com"),
                                                StringField("Y"), OtherField) >>),
                       OtherField, Absent)

\* safeJsonParse(value, fallback)
SafeJsonParseNullFallback(value, fallback) ==
    IF JsonParseThrows(value) THEN JsonNull ELSE JsonParse(value)
SafeJsonParse(value, fallback) ==
    IF JsonParseThrows(value) THEN fallback ELSE JsonParse(value)

\* Reading a property of a parsed value: a TypeError on null, undefined on a number.
PropertyThrows(v) == v.t = "null"
Property(v, name) == IF v.t = "object" THEN v[name] ELSE Absent

\* `message.content || ""`
ContentOrEmpty(c) == IF c = Undefined THEN "" ELSE c

\* typeof x === "string" ? x : null
StringOrNull(f) == IF f.isString THEN f.str ELSE Null

\* Array.isArray(x) ? x : []
ArrayOrEmpty(f) == IF f.isArray THEN f.items ELSE <<>>

\* The .map(...).filter(...) over sourcesRaw.
SourceKept(item) == item.isObject /\ item.url.isString /\ item.url.str # ""
AgentSource(item) ==
    [title |-> StringOrNull(item.title), url |-> item.url.str,
     details |-> StringOrNull(item.details)]
MapSources(raw) ==
    LET kept == SelectSeq(raw, SourceKept)
    IN  [i \in 1..Len(kept) |-> AgentSource(kept[i])]

\* The object returned on a stop/length answer.
CompletedResult(rawContent, parsed, w) ==
    [listings |-> ArrayOrEmpty(Property(parsed, "listings")),
     sources |-> MapSources(ArrayOrEmpty(Property(parsed, "sources"))),
     notes_en |-> StringOrNull(Property(parsed, "notes_en")),
     notes_fr |-> StringOrNull(Property(parsed, "notes_fr")),
     warnings |-> w,
     rawResponse |-> rawContent]

(***************************************************************************)
(* What the environment can answer.                                        *)
(***************************************************************************)
FinishReasons == {"stop", "length", "content_filter", "tool_calls", "function_call"}

\* Messages of the errors callOpenAI can throw (an Error may carry no message).
ModelErrors == {"OpenAI API error: 500 Internal Server Error - overloaded", ""}

\* Tool names the model asks for: a registered one and one that is not.  (A call
\* of fetch_listing_page goes through the same lines as one of search_listings.)
RequestedTools == {"search_listings", "lookup_mls"}

\* A tool call descriptor; `name` is Undefined when the descriptor has no `function`.
ToolCall(id, name) == [id |-> id, name |-> name]
CallId(turn, i) == "call_" \o ToString(turn) \o "_" \o ToString(i)

\* The call lists of a turn: 1..n well-formed calls.
CallLists(turn, n) ==
    UNION { { [i \in 1..k |-> ToolCall(CallId(turn, i), names[i])] :
                names \in [1..k -> RequestedTools] } : k \in 1..n }

\* Call lists with a descriptor that lacks `function`, alone or after one
\* well-formed call.
MalformedLists(turn, n) ==
    { <<ToolCall(CallId(turn, 1), Undefined)>> } \cup
    IF n < 2 THEN {}
    ELSE { <<ToolCall(CallId(turn, 1), name), ToolCall(CallId(turn, 2), Undefined)>> :
             name \in RequestedTools }

\* A tool result, and JSON.stringify of it.
ToolError(text) == [error |-> text, payload |-> ""]
ToolOk(payload) == [error |-> Null, payload |-> payload]
Stringify(r) ==
    IF r.error # Null THEN "{\"error\":\"" \o r.error \o "\"}"
    ELSE "{" \o r.payload \o "}"

\* `{ error: `Unknown tool ${toolCall.function.name}` }`
UnknownToolResultNoName(name) == ToolError("Unknown tool")
UnknownToolResult(name) == ToolError("Unknown tool " \o name)

\* What the executors can return for well-formed arguments.  Both catch
\* their own failures and report them as an error field.
ExecutorResults(name) ==
    IF name = "search_listings"
    THEN IF tavilyKey THEN {ToolOk("\"query\":\"q\",\"results\":[]")}
         ELSE {ToolError("TAVILY_API_KEY is not configured")}
    ELSE {ToolOk("\"url\":\"https://x.com\",\"text\":\"t\",\"length\":1")}

(***************************************************************************)
(* The steps of runListingAgent.                                           *)
(***************************************************************************)
NoFailedCall == [set |-> FALSE, calls |-> 0, execs |-> 0, text |-> ""]

AgentInit ==
    /\ apiKey \in {Undefined, "", "sk-test"}
    /\ tavilyKey \in BOOLEAN
    /\ pc = "start"
    /\ iterations = 0
    /\ messages = <<>>
    /\ warnings = <<>>
    /\ pending = <<>>
    /\ choice = NoChoice
    /\ result = NoResult
    /\ outcome = "Running"
    /\ modelCalls = 0
    /\ toolExecs = 0
    /\ toolCalls = 0
    /\ failedCall = NoFailedCall
    /\ stopSeen = FALSE

\* `return {...}`: the locals die with the invocation.
Return(r, how) ==
    /\ result' = r
    /\ outcome' = how
    /\ pc' = "done"
    /\ messages' = <<>>
    /\ pending' = <<>>

\* An uncaught exception rejects the promise runListingAgent returned.
Throw ==
    /\ outcome' = "Threw"
    /\ pc' = "threw"
    /\ messages' = <<>>
    /\ pending' = <<>>
    /\ UNCHANGED result

\* Lines 253-263: no key, no run.
StartNoKey ==
    /\ pc = "start"
    /\ KeyMissing(apiKey)
    /\ Return(FailedResult(<<"OPENAI_API_KEY is not configured">>), "Failed")
    /\ UNCHANGED <<apiKey, tavilyKey, iterations, warnings, choice, modelCalls,
                   toolExecs, toolCalls, failedCall, stopSeen>>
    /\ UNCHANGED <<normVars, flowVars, auxVars>>

\* Lines 265-319: the conversation is seeded.
StartWithKey ==
    /\ pc = "start"
    /\ ~KeyMissing(apiKey)
    /\ messages' = InitialMessages
    /\ pc' = "loop"
    /\ UNCHANGED <<apiKey, tavilyKey, iterations, warnings, pending, choice, result,
                   outcome, modelCalls, toolExecs, toolCalls, failedCall, stopSeen>>
    /\ UNCHANGED <<normVars, flowVars, auxVars>>

\* The while test fails: lines 407-414.
LoopExit ==
    /\ pc = "loop"
    /\ ~LoopGuard(iterations)
    /\ Return(FailedResult(warnings), "Failed")
    /\ UNCHANGED <<apiKey, tavilyKey, iterations, warnings, choice, modelCalls,
                   toolExecs, toolCalls, failedCall, stopSeen>>
    /\ UNCHANGED <<normVars, flowVars, auxVars>>

\* The head of every turn: the guard, the increment, the call (lines 321-331).
IssueModelCall ==
    /\ pc = "loop"
    /\ LoopGuard(iterations)
    /\ iterations' = iterations + 1
    /\ modelCalls' = modelCalls + 1

\* callOpenAI throws: lines 332-335, then 407-414.
ModelCallFailsAndRetries(m) ==
    /\ IssueModelCall
    /\ warnings' = Append(warnings, ErrorText(m))
    /\ choice' = [NoChoice EXCEPT !.kind = "error"]
    /\ failedCall' = IF failedCall.set THEN failedCall
                     ELSE [set |-> TRUE, calls |-> modelCalls', execs |-> toolExecs,
                           text |-> ErrorText(m)]
    /\ UNCHANGED <<pc, messages, pending, result, outcome>>
    /\ UNCHANGED <<apiKey, tavilyKey, toolExecs, toolCalls, stopSeen>>
    /\ UNCHANGED <<normVars, flowVars, auxVars>>
ModelCallFails(m) ==
    /\ IssueModelCall
    /\ warnings' = Append(warnings, ErrorText(m))
    /\ choice' = [NoChoice EXCEPT !.kind = "error"]
    /\ failedCall' = [set |-> TRUE, calls |-> modelCalls', execs |-> toolExecs,
                      text |-> ErrorText(m)]
    /\ Return(FailedResult(warnings'), "Failed")
    /\ UNCHANGED <<apiKey, tavilyKey, toolExecs, toolCalls, stopSeen>>
    /\ UNCHANGED <<normVars, flowVars, auxVars>>

\* The response body is the JSON text null: `completion.choices` is a TypeError
\* outside the try block (line 337).
ModelReturnsNull ==
    /\ IssueModelCall
    /\ choice' = [NoChoice EXCEPT !.kind = "null body"]
    /\ Throw
    /\ UNCHANGED <<apiKey, tavilyKey, warnings, toolExecs, toolCalls, failedCall, stopSeen>>
    /\ UNCHANGED <<normVars, flowVars, auxVars>>

\* No first choice: lines 337-341, then 407-414.
ModelReturnsNoChoice ==
    /\ IssueModelCall
    /\ warnings' = Append(warnings, "OpenAI API returned no choices")
    /\ choice' = [NoChoice EXCEPT !.kind = "no choices"]
    /\ Return(FailedResult(warnings'), "Failed")
    /\ UNCHANGED <<apiKey, tavilyKey, toolExecs, toolCalls, failedCall, stopSeen>>
    /\ UNCHANGED <<normVars, flowVars, auxVars>>

\* A response with tool calls: lines 343-351; the finish reason is not looked at.
ModelRequestsTools(calls, fr) ==
    /\ IssueModelCall
    /\ choice' = [kind |-> "choice", finish_reason |-> fr, content |-> Undefined,
                  ncalls |-> Len(calls)]
    /\ messages' = Append(messages, Msg("assistant", ContentOrEmpty(Undefined), Null, calls))
    /\ pending' = calls
    /\ toolCalls' = toolCalls + Len(calls)
    /\ pc' = "tools"
    /\ stopSeen' = (stopSeen \/ fr \in {"stop", "length"})
    /\ UNCHANGED <<apiKey, tavilyKey, warnings, result, outcome, toolExecs, failedCall>>
    /\ UNCHANGED <<normVars, flowVars, auxVars>>

\* After one tool call of the turn: next call, or `continue` (line 366).
NextCallLeavesTurn ==
    /\ pending' = <<>>
    /\ pc' = "loop"
    /\ choice' = NoChoice
NextCall ==
    /\ pending' = Tail(pending)
    /\ pc' = IF Tail(pending) = <<>> THEN "loop" ELSE "tools"
    /\ choice' = IF Tail(pending) = <<>> THEN NoChoice ELSE choice

\* Lines 354-355, 360-364: no executor under that name.
ExecUnknownToolWarns ==
    /\ pc = "tools"
    /\ pending # <<>>
    /\ Head(pending).name # Undefined
    /\ Head(pending).name \notin ToolExecutors
    /\ messages' = Append(messages,
            Msg("tool", Stringify(UnknownToolResult(Head(pending).name)),
                Head(pending).id, <<>>))
    /\ warnings' = Append(warnings, UnknownToolResult(Head(pending).name).error)
    /\ NextCall
    /\ UNCHANGED <<apiKey, tavilyKey, iterations, result, outcome, modelCalls,
                   toolExecs, toolCalls, failedCall, stopSeen>>
    /\ UNCHANGED <<normVars, flowVars, auxVars>>
ExecUnknownTool ==
    /\ pc = "tools"
    /\ pending # <<>>
    /\ Head(pending).name # Undefined
    /\ Head(pending).name \notin ToolExecutors
    /\ messages' = Append(messages,
            Msg("tool", Stringify(UnknownToolResult(Head(pending).name)),
                Head(pending).id, <<>>))
    /\ NextCall
    /\ UNCHANGED <<apiKey, tavilyKey, iterations, warnings, result, outcome, modelCalls,
                   toolExecs, toolCalls, failedCall, stopSeen>>
    /\ UNCHANGED <<normVars, flowVars, auxVars>>

\* Lines 354-364: the executor runs and its result is appended.
ExecTool(toolResult) ==
    /\ pc = "tools"
    /\ pending # <<>>
    /\ Head(pending).name \in ToolExecutors
    /\ toolResult \in ExecutorResults(Head(pending).name)
    /\ toolExecs' = toolExecs + 1
    /\ messages' = Append(messages, Msg("tool", Stringify(toolResult), Head(pending).id, <<>>))
    /\ NextCall
    /\ UNCHANGED <<apiKey, tavilyKey, iterations, warnings, result, outcome, modelCalls,
                   toolCalls, failedCall, stopSeen>>
    /\ UNCHANGED <<normVars, flowVars, auxVars>>

\* Line 354: `toolCall.function.name` on a descriptor without `function`.
ExecMalformedCall ==
    /\ pc = "tools"
    /\ pending # <<>>
    /\ Head(pending).name = Undefined
    /\ Throw
    /\ UNCHANGED <<apiKey, tavilyKey, iterations, warnings, choice, modelCalls,
                   toolExecs, toolCalls, failedCall, stopSeen>>
    /\ UNCHANGED <<normVars, flowVars, auxVars>>

\* No tool calls, finish reason stop or length: lines 369-396.
ModelAnswers(fr, content) ==
    /\ fr \in {"stop", "length"}
    /\ IssueModelCall
    /\ choice' = [kind |-> "choice", finish_reason |-> fr, content |-> content, ncalls |-> 0]
    /\ LET rawContent == ContentOrEmpty(content)
           parsed == SafeJsonParse(rawContent, EmptyObject)
       IN  IF PropertyThrows(parsed)
           THEN Throw
           ELSE Return(CompletedResult(rawContent, parsed, warnings), "Completed")
    /\ stopSeen' = TRUE
    /\ UNCHANGED <<apiKey, tavilyKey, warnings, toolExecs, toolCalls, failedCall>>
    /\ UNCHANGED <<normVars, flowVars, auxVars>>

\* No tool calls, finish reason content_filter: lines 398-401, then 407-414.
ModelContentFilterUnhandled(content) ==
    /\ IssueModelCall
    /\ choice' = [kind |-> "choice", finish_reason |-> "content_filter",
                  content |-> content, ncalls |-> 0]
    /\ warnings' = Append(warnings, "Unexpected finish reason: content_filter")
    /\ Return(FailedResult(warnings'), "Failed")
    /\ UNCHANGED <<apiKey, tavilyKey, toolExecs, toolCalls, failedCall, stopSeen>>
    /\ UNCHANGED <<normVars, flowVars, auxVars>>
ModelContentFilter(content) ==
    /\ IssueModelCall
    /\ choice' = [kind |-> "choice", finish_reason |-> "content_filter",
                  content |-> content, ncalls |-> 0]
    /\ warnings' = Append(warnings, "OpenAI content filter blocked the response")
    /\ Return(FailedResult(warnings'), "Failed")
    /\ UNCHANGED <<apiKey, tavilyKey, toolExecs, toolCalls, failedCall, stopSeen>>
    /\ UNCHANGED <<normVars, flowVars, auxVars>>

\* No tool calls, any other finish reason: lines 403-404, then 407-414.
ModelUnexpectedFinish(fr, content) ==
    /\ fr \notin {"stop", "length", "content_filter"}
    /\ IssueModelCall
    /\ choice' = [kind |-> "choice", finish_reason |-> fr, content |-> content, ncalls |-> 0]
    /\ warnings' = Append(warnings, "Unexpected finish reason: " \o fr)
    /\ Return(FailedResult(warnings'), "Failed")
    /\ UNCHANGED <<apiKey, tavilyKey, toolExecs, toolCalls, failedCall, stopSeen>>
    /\ UNCHANGED <<normVars, flowVars, auxVars>>

(***************************************************************************)
(*                     normalizeAndDedupeListings                          *)
(*                                                                         *)
(* Texts are sequences of characters, so that trimming, upper-casing and   *)
(* the stripping of non-digits are computed, not assumed.                  *)
(***************************************************************************)
MaxListingsOffByOne == 12 + 1
MAX_LISTINGS == 12

\* JavaScript values of a record's fields.
JsAbsent == [t |-> "absent"]                        \* undefined or null
JsStr(chars) == [t |-> "string", s |-> chars]
JsNum(n, d) == [t |-> "number", n |-> n, d |-> d]   \* the number n / 10^d
JsInt(n) == JsNum(n, 0)
JsNaN == [t |-> "NaN"]

Digits == <<"0", "1", "2", "3", "4", "5", "6", "7", "8", "9">>
IsDigit(c) == \E k \in 1..10 : Digits[k] = c
DigitValue(c) == (CHOOSE k \in 1..10 : Digits[k] = c) - 1
IsSpace(c) == c \in {" ", "\t", "\n"}

LowerCase == <<"a", "b", "c", "d", "e", "f", "l", "m", "n", "o", "r", "s", "t", "u", "v",
               "e-acute">>
UpperCase == <<"A", "B", "C", "D", "E", "F", "L", "M", "N", "O", "R", "S", "T", "U", "V",
               "E-ACUTE">>

\* String.prototype.toUpperCase
UpperChar(c) ==
    IF \E k \in 1..Len(LowerCase) : LowerCase[k] = c
    THEN UpperCase[CHOOSE k \in 1..Len(LowerCase) : LowerCase[k] = c]
    ELSE c
ToUpperCase(chars) == [i \in 1..Len(chars) |-> UpperChar(chars[i])]

\* String.prototype.trim
RECURSIVE TrimStart(_)
TrimStart(chars) ==
    IF chars # <<>> /\ IsSpace(Head(chars)) THEN TrimStart(Tail(chars)) ELSE chars
RECURSIVE TrimEnd(_)
TrimEnd(chars) ==
    IF chars # <<>> /\ IsSpace(chars[Len(chars)])
    THEN TrimEnd(SubSeq(chars, 1, Len(chars) - 1))
    ELSE chars
Trim(chars) == TrimEnd(TrimStart(chars))

\* s.replace(/[^\d]/g, "") and s.replace(/[^\d.]/g, "")
IsDigitOrDot(c) == IsDigit(c) \/ c = "."
KeepDigits(chars) == SelectSeq(chars, IsDigit)
KeepDigitsAndDots(chars) == SelectSeq(chars, IsDigitOrDot)

RECURSIVE Pow10(_)
Pow10(d) == IF d = 0 THEN 1 ELSE 10 * Pow10(d - 1)

\* A number without trailing zeros in its decimals.
RECURSIVE Reduced(_, _)
Reduced(n, d) == IF d > 0 /\ n % 10 = 0 THEN Reduced(n \div 10, d - 1) ELSE JsNum(n, d)

RECURSIVE DigitsValue(_)
DigitsValue(chars) ==
    IF chars = <<>> THEN 0
    ELSE 10 * DigitsValue(SubSeq(chars, 1, Len(chars) - 1)) + DigitValue(chars[Len(chars)])

RECURSIVE NatChars(_)
NatChars(n) ==
    IF n < 10 THEN <<Digits[n + 1]>> ELSE NatChars(n \div 10) \o <<Digits[(n % 10) + 1]>>

RECURSIVE Padded(_, _)
Padded(chars, width) == IF Len(chars) >= width THEN chars ELSE Padded(<<"0">> \o chars, width)

\* Number(text) on decimal texts: blank is 0; an optional sign, digits and at
\* most one point, with a digit somewhere; anything else is NaN.
UnsignedNumber(chars) ==
    LET dots == SelectSeq(chars, LAMBDA c : c = ".")
        digs == KeepDigits(chars)
        pos  == IF dots = <<>> THEN Len(chars) + 1
                ELSE CHOOSE i \in 1..Len(chars) : chars[i] = "."
    IN  IF Len(digs) + Len(dots) # Len(chars) \/ Len(dots) > 1 \/ digs = <<>>
        THEN JsNaN
        ELSE Reduced(DigitsValue(digs), IF dots = <<>> THEN 0 ELSE Len(chars) - pos)
NumberOfText(chars) ==
    LET t == Trim(chars)
    IN  IF t = <<>> THEN JsInt(0)
        ELSE IF Head(t) = "-"
             THEN LET u == UnsignedNumber(Tail(t))
                  IN  IF u.t = "NaN" THEN u ELSE JsNum(0 - u.n, u.d)
             ELSE IF Head(t) = "+" THEN UnsignedNumber(Tail(t))
             ELSE UnsignedNumber(t)

\* String(x) for a number.
NumberChars(v) ==
    LET a == IF v.n < 0 THEN 0 - v.n ELSE v.n
        whole == NatChars(a \div Pow10(v.d))
        frac == IF v.d = 0 THEN <<>>
                ELSE <<".">> \o Padded(NatChars(a % Pow10(v.d)), v.d)
    IN  (IF v.n < 0 THEN <<"-">> ELSE <<>>) \o whole \o frac

\* String(x)
JsString(v) ==
    CASE v.t = "string" -> v.s
      [] v.t = "number" -> NumberChars(v)
      [] v.t = "NaN" -> <<"N", "a", "N">>
      [] v.t = "absent" -> <<"n", "u", "l", "l">>

\* Number(x) for a value that is not null or undefined.
JsNumber(v) ==
    CASE v.t = "string" -> NumberOfText(v.s)
      [] v.t = "number" -> v
      [] v.t = "NaN" -> v

\* `x ? ... : ...`
Truthy(v) ==
    CASE v.t = "string" -> v.s # <<>>
      [] v.t = "number" -> v.n # 0
      [] v.t = "NaN" -> FALSE
      [] v.t = "absent" -> FALSE

\* `x != null`
NotNull(v) == v.t # "absent"

\* `a ?? b`
Coalesce(a, b) == IF NotNull(a) THEN a ELSE b

\* first(...vals): the first value that is not null or undefined, else null.
FirstOf(vals) ==
    IF \E i \in 1..Len(vals) : NotNull(vals[i])
    THEN vals[CHOOSE i \in 1..Len(vals) :
                NotNull(vals[i]) /\ \A j \in 1..(i - 1) : ~NotNull(vals[j])]
    ELSE JsAbsent

\* numberFromPriceLike(s); `s.replace` is a TypeError when s is a truthy non-string.
NumberFromPriceLikeThrows(s) == Truthy(s) /\ s.t # "string"
NumberFromPriceLike(s) ==
    IF ~Truthy(s) THEN JsAbsent
    ELSE LET raw == KeepDigits(s.s)
         IN  IF raw = <<>> THEN JsAbsent ELSE NumberOfText(raw)

\* `x ? String(x).trim() : null`
TrimmedOrNull(v) == IF Truthy(v) THEN JsStr(Trim(JsString(v))) ELSE JsAbsent

Sentinel ==
    <<"M", "L", "S", " ", "n", "o", "n", " ", "t", "r", "o", "u", "v", "e-acute", " ", "/", " ",
      "M", "L", "S", " ", "n", "o", "t", " ", "f", "o", "u", "n", "d">>

\* A raw record: the fields the normaliser reads.  MLSreg is the key "MLS(R)".
EmptyRecord ==
    [isObject |-> TRUE,
     mls |-> JsAbsent, MLS |-> JsAbsent, listingId |-> JsAbsent, listing_id |-> JsAbsent,
     MLSreg |-> JsAbsent, url |-> JsAbsent, address |-> JsAbsent, beds |-> JsAbsent,
     baths |-> JsAbsent, type |-> JsAbsent, note_fr |-> JsAbsent, note_en |-> JsAbsent,
     price |-> JsAbsent, priceText |-> JsAbsent, price_str |-> JsAbsent,
     askingPrice |-> JsAbsent]

\* `if (!item || typeof item !== "object") continue;`
IsRecord(item) == item.isObject

\* The local `mls`.
MlsOf(record) ==
    TrimmedOrNull(FirstOf(<<record.mls, record.MLS, record.listingId, record.listing_id,
                            record.MLSreg>>))

\* The local `url`.
UrlOf(record) == TrimmedOrNull(record.url)

PriceAlias(record) == FirstOf(<<record.priceText, record.price_str, record.askingPrice>>)

\* The evaluation of `price` throws.
NormalizeThrows(record) ==
    ~NotNull(record.price) /\ NumberFromPriceLikeThrows(PriceAlias(record))

\* The local `normalized`.
Normalized(record) ==
    [mls |-> Coalesce(MlsOf(record), JsStr(Sentinel)),
     url |-> UrlOf(record),
     address |-> TrimmedOrNull(record.address),
     price |-> IF NotNull(record.price) THEN JsNumber(record.price)
               ELSE NumberFromPriceLike(PriceAlias(record)),
     beds |-> IF NotNull(record.beds)
              THEN NumberOfText(KeepDigits(JsString(record.beds))) ELSE JsAbsent,
     baths |-> IF NotNull(record.baths)
               THEN NumberOfText(KeepDigitsAndDots(JsString(record.baths))) ELSE JsAbsent,
     type |-> TrimmedOrNull(record.type),
     note_fr |-> TrimmedOrNull(record.note_fr),
     note_en |-> TrimmedOrNull(record.note_en)]

\* The local `key`.
IdentityKeyCaseSensitive(record, outLength) ==
    IF Truthy(MlsOf(record)) THEN <<"M", "L", "S", ":">> \o MlsOf(record).s
    ELSE IF Truthy(UrlOf(record)) THEN <<"U", "R", "L", ":">> \o UrlOf(record).s
    ELSE <<"I", "D", "X", ":">> \o NatChars(outLength)
IdentityKeyFixedIndex(record, outLength) ==
    IF Truthy(MlsOf(record)) THEN <<"M", "L", "S", ":">> \o ToUpperCase(MlsOf(record).s)
    ELSE IF Truthy(UrlOf(record)) THEN <<"U", "R", "L", ":">> \o UrlOf(record).s
    ELSE <<"I", "D", "X", ":">> \o NatChars(0)
IdentityKey(record, outLength) ==
    IF Truthy(MlsOf(record)) THEN <<"M", "L", "S", ":">> \o ToUpperCase(MlsOf(record).s)
    ELSE IF Truthy(UrlOf(record)) THEN <<"U", "R", "L", ":">> \o UrlOf(record).s
    ELSE <<"I", "D", "X", ":">> \o NatChars(outLength)

\* seen.has(key) and seen.get(key)
SeenHas(key) == \E e \in seen : e.key = key
SeenGet(key) == (CHOOSE e \in seen : e.key = key).idx

\* The object written to out[idx] on a duplicate key.
MergedLastWins(prior, normalized) ==
    [prior EXCEPT !.address = Coalesce(normalized.address, prior.address),
                  !.price = Coalesce(normalized.price, prior.price),
                  !.beds = Coalesce(normalized.beds, prior.beds),
                  !.baths = Coalesce(normalized.baths, prior.baths),
                  !.type = Coalesce(normalized.type, prior.type),
                  !.note_fr = Coalesce(normalized.note_fr, prior.note_fr),
                  !.note_en = Coalesce(normalized.note_en, prior.note_en)]
Merged(prior, normalized) ==
    [prior EXCEPT !.address = Coalesce(prior.address, normalized.address),
                  !.price = Coalesce(prior.price, normalized.price),
                  !.beds = Coalesce(prior.beds, normalized.beds),
                  !.baths = Coalesce(prior.baths, normalized.baths),
                  !.type = Coalesce(prior.type, normalized.type),
                  !.note_fr = Coalesce(prior.note_fr, normalized.note_fr),
                  !.note_en = Coalesce(prior.note_en, normalized.note_en)]

\* `if (out.length >= MAX_LISTINGS) break;`
CapReachedLate(o) == Len(o) > MAX_LISTINGS
CapReached(o) == Len(o) >= MAX_LISTINGS

\* out.slice(0, MAX_LISTINGS)
Slice(o) == SubSeq(o, 1, IF Len(o) < MAX_LISTINGS THEN Len(o) ELSE MAX_LISTINGS)

NormIdle ==
    /\ npc = "loop"
    /\ seen = {}
    /\ out = <<>>
    /\ consumed = 0
    /\ stopped = FALSE
    /\ ignored = <<>>
    /\ normResult = <<>>
    /\ items = <<>>

\* runWorkflow has not been called.
NoWorkflow == [input_as_text |-> Undefined]
NoCriteria == [location |-> Undefined]
NoResponse == [kind |-> "none"]
FlowIdle ==
    /\ wpc = "idle"
    /\ workflow = NoWorkflow
    /\ guardrailsResult = <<>>
    /\ criteria = NoCriteria
    /\ response = NoResponse

AgentIdle ==
    /\ apiKey = Undefined
    /\ tavilyKey = FALSE
    /\ pc = "start"
    /\ iterations = 0
    /\ messages = <<>>
    /\ warnings = <<>>
    /\ pending = <<>>
    /\ choice = NoChoice
    /\ result = NoResult
    /\ outcome = "Running"
    /\ modelCalls = 0
    /\ toolExecs = 0
    /\ toolCalls = 0
    /\ failedCall = NoFailedCall
    /\ stopSeen = FALSE

\* The loop is at its head with a next item to visit.
AtItem == npc = "loop" /\ ~stopped

\* Line 112: an item that is not an object is passed over.
SkipItem(item) ==
    /\ AtItem
    /\ ~IsRecord(item)
    /\ consumed' = consumed + 1
    /\ UNCHANGED <<npc, seen, out, stopped, ignored, normResult, items>>
    /\ UNCHANGED <<agentVars, flowVars, auxVars>>

\* Lines 129-132: numberFromPriceLike is handed a number and throws.
VisitThrows(item) ==
    /\ AtItem
    /\ IsRecord(item)
    /\ NormalizeThrows(item)
    /\ consumed' = consumed + 1
    /\ npc' = "threw"
    /\ UNCHANGED <<seen, out, stopped, ignored, normResult, items>>
    /\ UNCHANGED <<agentVars, flowVars, auxVars>>

\* Lines 113-149, 165: a record under a new key is appended.
AcceptItemAtFront(item) ==
    /\ AtItem
    /\ IsRecord(item)
    /\ ~NormalizeThrows(item)
    /\ ~SeenHas(IdentityKey(item, Len(out)))
    /\ seen' = seen \cup {[key |-> IdentityKey(item, Len(out)), idx |-> Len(out)]}
    /\ out' = <<Normalized(item)>> \o out
    /\ stopped' = CapReached(out')
    /\ consumed' = consumed + 1
    /\ UNCHANGED <<npc, ignored, normResult, items>>
    /\ UNCHANGED <<agentVars, flowVars, auxVars>>
AcceptItem(item) ==
    /\ AtItem
    /\ IsRecord(item)
    /\ ~NormalizeThrows(item)
    /\ ~SeenHas(IdentityKey(item, Len(out)))
    /\ seen' = seen \cup {[key |-> IdentityKey(item, Len(out)), idx |-> Len(out)]}
    /\ out' = Append(out, Normalized(item))
    /\ stopped' = CapReached(out')
    /\ consumed' = consumed + 1
    /\ UNCHANGED <<npc, ignored, normResult, items>>
    /\ UNCHANGED <<agentVars, flowVars, auxVars>>

\* Lines 113-146, 150-165: a record under a known key fills the first one's gaps.
MergeItem(item) ==
    /\ AtItem
    /\ IsRecord(item)
    /\ ~NormalizeThrows(item)
    /\ SeenHas(IdentityKey(item, Len(out)))
    /\ LET idx == SeenGet(IdentityKey(item, Len(out)))
       IN  out' = [out EXCEPT ![idx + 1] = Merged(out[idx + 1], Normalized(item))]
    /\ stopped' = CapReached(out')
    /\ consumed' = consumed + 1
    /\ UNCHANGED <<npc, seen, ignored, normResult, items>>
    /\ UNCHANGED <<agentVars, flowVars, auxVars>>

\* The input holds a further item, but the loop was left through `break`.
LeftUnvisited(item) ==
    /\ npc = "loop"
    /\ stopped
    /\ ignored' = <<item>>
    /\ consumed' = consumed + 1
    /\ UNCHANGED <<npc, seen, out, stopped, normResult, items>>
    /\ UNCHANGED <<agentVars, flowVars, auxVars>>

\* Line 168: the input is exhausted, or the loop was left.
ReturnListings ==
    /\ npc = "loop"
    /\ normResult' = Slice(out)
    /\ npc' = "returned"
    /\ UNCHANGED <<seen, out, consumed, stopped, ignored, items>>
    /\ UNCHANGED <<agentVars, flowVars, auxVars>>

\* The raw items of the runs that fill the output.
Chars_A1 == <<"A", "1">>
ItemA == [EmptyRecord EXCEPT !.mls = JsStr(Chars_A1),
                             !.address = JsStr(<<"1", " ", "R", "u", "e">>)]
ItemADup == [EmptyRecord EXCEPT !.MLS = JsStr(<<" ", "a", "1", " ">>),
                                !.price = JsInt(4),
                                !.url = JsStr(<<"u">>)]
ItemBare == EmptyRecord
ItemUrl == [EmptyRecord EXCEPT !.url = JsStr(<<"u">>),
                               !.type = JsStr(<<"c", "o", "n", "d", "o">>)]
ItemNotObject == [EmptyRecord EXCEPT !.isObject = FALSE]
ItemPriceNumberAlias == [EmptyRecord EXCEPT !.priceText = JsInt(5)]

CapItems == {ItemA, ItemADup, ItemBare, ItemUrl, ItemNotObject, ItemPriceNumberAlias}

NormNext ==
    \/ \E item \in CapItems : consumed < MaxItems /\ SkipItem(item)
    \/ \E item \in CapItems : consumed < MaxItems /\ VisitThrows(item)
    \/ \E item \in CapItems : consumed < MaxItems /\ AcceptItem(item)
    \/ \E item \in CapItems : consumed < MaxItems /\ MergeItem(item)
    \/ \E item \in CapItems : consumed < MaxItems /\ LeftUnvisited(item)
    \/ ReturnListings

NormInit == AgentIdle /\ NormIdle /\ FlowIdle /\ AuxIdle
NormSpec == NormInit /\ [][NormNext]_vars

(***************************************************************************)
(* normalizeAndDedupeListings on a list given up front: short lists over   *)
(* records of every shape the field rules tell apart.                      *)
(***************************************************************************)
ItemAConflict == [EmptyRecord EXCEPT !.listingId = JsStr(<<"a", "1">>),
                                     !.address = JsStr(<<"2", " ", "A", "v">>),
                                     !.beds = JsInt(3)]
ItemBlankMls == [EmptyRecord EXCEPT !.mls = JsStr(<<" ", " ">>),
                                    !.note_en = JsStr(<<"n">>)]
ItemSentinelMls == [EmptyRecord EXCEPT !.mls = JsStr(Sentinel),
                                       !.address = JsStr(<<"3", " ", "R", "u", "e">>)]
ItemSentinelMlsUrl == [EmptyRecord EXCEPT !.mls = JsStr(Sentinel),
                                          !.url = JsStr(<<"v">>),
                                          !.price = JsInt(7)]
ItemPriceString == [EmptyRecord EXCEPT !.mls = JsStr(<<"B", "2">>),
                                       !.price = JsStr(<<"$", "4", ",", "5", "0">>)]
ItemPriceAlias == [EmptyRecord EXCEPT !.mls = JsStr(<<"C", "3">>),
                                      !.askingPrice = JsStr(<<"$", "4", ",", "5", "0", " ", "C", "A", "D">>)]
ItemPriceNegative == [EmptyRecord EXCEPT !.mls = JsStr(<<"D", "4">>),
                                         !.price = JsInt(0 - 5),
                                         !.beds = JsStr(<<"3", " ", "c", "h">>)]
ItemBathsDots == [EmptyRecord EXCEPT !.mls = JsStr(<<"E", "5">>),
                                     !.baths = JsStr(<<"1", ".", "2", ".", "3">>),
                                     !.beds = JsNum(25, 1)]

FieldItems ==
    {ItemA, ItemADup, ItemAConflict, ItemBare, ItemUrl, ItemNotObject, ItemPriceNumberAlias,
     ItemBlankMls, ItemSentinelMls, ItemSentinelMlsUrl, ItemPriceString, ItemPriceAlias,
     ItemPriceNegative, ItemBathsDots}

\* The lists handed to the function.
RawLists == UNION { [1..k -> FieldItems] : k \in 0..MaxListLen }

\* Lines 108-109 on entry with the argument `list`.
NormStart(list) ==
    /\ npc = "loop"
    /\ seen = {}
    /\ out = <<>>
    /\ consumed = 0
    /\ stopped = FALSE
    /\ ignored = <<>>
    /\ normResult = <<>>
    /\ items = list

\* The item the for loop is at.
MoreItems == consumed < Len(items)
Item == items[consumed + 1]

ListNext ==
    \/ MoreItems /\ SkipItem(Item)
    \/ MoreItems /\ VisitThrows(Item)
    \/ MoreItems /\ AcceptItem(Item)
    \/ MoreItems /\ MergeItem(Item)
    \/ (~MoreItems \/ stopped) /\ ReturnListings

ListInit == AgentIdle /\ FlowIdle /\ AuxIdle /\ \E list \in RawLists : NormStart(list)
ListSpec == ListInit /\ [][ListNext]_vars

(***************************************************************************)
(* runWorkflow of the simple workflow: guardrail gate, criteria, listing   *)
(* normalisation, response.                                                *)
(***************************************************************************)
Chars_Laval == <<"L", "a", "v", "a", "l", ",", " ", "Q", "C">>
DEFAULT_LOCATION == Chars_Laval

\* An array member of a result that may be missing.
Missing == [set |-> FALSE, elems |-> <<>>]
Array(elems) == [set |-> TRUE, elems |-> elems]

\* info of a guardrail result; a name or error the SDK left out is Undefined.
Info(byName, byCamelName, flagged, detected, error) ==
    [guardrail_name |-> byName, guardrailName |-> byCamelName,
     flagged_categories |-> flagged, detected_entities |-> detected, error |-> error]

\* A GuardrailResult.  tripwireTriggered and executionFailed are read through
\* `=== true` and `&&` only: a member left out reads as FALSE.
GuardrailResult(tripwire, info, executionFailed) ==
    [tripwireTriggered |-> tripwire, info |-> info, executionFailed |-> executionFailed]

NoInfo == Info(Undefined, Undefined, Missing, <<>>, Undefined)
FlaggedHate == Array(<<"hate/threatening">>)
\* detected_entities: one entry per entity, an array of hits or something else.
CardHits == <<[entity |-> "CREDIT_CARD", isArray |-> TRUE, length |-> 2],
              [entity |-> "US_SSN", isArray |-> FALSE, length |-> 0]>>

ModerationTripped ==
    GuardrailResult(TRUE, Info("Moderation", Undefined, FlaggedHate, <<>>, Undefined), FALSE)
ModerationTrippedBare ==
    GuardrailResult(TRUE, Info(Undefined, "Moderation", Missing, <<>>, Undefined), FALSE)
ModerationFlaggedOnly ==
    GuardrailResult(FALSE, Info("Moderation", Undefined, FlaggedHate, <<>>, Undefined), FALSE)
ModerationClean ==
    GuardrailResult(FALSE, Info("Moderation", Undefined, Array(<<>>), <<>>, Undefined), FALSE)
ModerationBroken ==
    GuardrailResult(FALSE, Info("Moderation", Undefined, Missing, <<>>, "timeout"), TRUE)
PiiTripped ==
    GuardrailResult(TRUE, Info(Undefined, "Contains PII", Missing, CardHits, Undefined), FALSE)
PiiClean ==
    GuardrailResult(FALSE, Info("Contains PII", Undefined, Missing, <<>>, Undefined), FALSE)
AnonymousTripped == GuardrailResult(TRUE, NoInfo, FALSE)

ModerationResults ==
    {ModerationTripped, ModerationTrippedBare, ModerationFlaggedOnly, ModerationClean,
     ModerationBroken}
PiiResults == {PiiTripped, PiiClean}

\* What runGuardrails can resolve to: the local shim of the SDK resolves to
\* the empty list; the SDK it stands in for reports a result per guardrail of
\* guardrailsConfig (Moderation, Contains PII).
GuardrailOutcomes ==
    {<<>>, <<AnonymousTripped>>}
    \cup { <<m>> : m \in ModerationResults }
    \cup { <<p>> : p \in PiiResults }
    \cup { <<m, p>> : m \in ModerationResults, p \in PiiResults }

\* guardrailsHasTripwire(results)
GuardrailsHasTripwireEvery(results) ==
    \A i \in 1..Len(results) : results[i].tripwireTriggered
GuardrailsHasTripwire(results) ==
    \E i \in 1..Len(results) : results[i].tripwireTriggered

\* `info?.guardrail_name ?? info?.guardrailName`
GuardrailName(r) ==
    IF r.info.guardrail_name # Undefined THEN r.info.guardrail_name ELSE r.info.guardrailName

\* The closure `get(name)`: the first result of that name, else a result
\* none of whose members is set (every read of it goes through `?.`).
NoGuardrail == GuardrailResult(FALSE, NoInfo, FALSE)
Get(results, name) ==
    IF \E i \in 1..Len(results) : GuardrailName(results[i]) = name
    THEN results[CHOOSE i \in 1..Len(results) :
                    /\ GuardrailName(results[i]) = name
                    /\ \A j \in 1..(i - 1) : GuardrailName(results[j]) # name]
    ELSE NoGuardrail

\* piiCounts: "<entity>:<hits>" for the entries that are arrays.
PiiCounts(r) ==
    LET arrays == SelectSeq(r.info.detected_entities, LAMBDA e : e.isArray)
    IN  [i \in 1..Len(arrays) |-> arrays[i].entity \o ":" \o ToString(arrays[i].length)]

\* `...(r?.executionFailed && r?.info?.error ? { error: r.info.error } : {})`
ErrorMember(r) ==
    IF r.executionFailed /\ r.info.error # Undefined THEN r.info.error ELSE Undefined

\* buildGuardrailFailOutput(results); a member that is not spread in is Missing or Undefined.
BuildGuardrailFailOutput(results) ==
    LET pii == Get(results, "Contains PII")
        mod == Get(results, "Moderation")
        jb  == Get(results, "Jailbreak")
        hal == Get(results, "Hallucination Detection")
    IN  [kind |-> "guardrail_fail",
         pii |-> [failed |-> (Len(PiiCounts(pii)) > 0 \/ pii.tripwireTriggered),
                  detected_counts |-> IF Len(PiiCounts(pii)) > 0 THEN Array(PiiCounts(pii))
                                      ELSE Missing,
                  error |-> ErrorMember(pii)],
         moderation |->
             [failed |-> (\/ mod.tripwireTriggered
                          \/ Len(mod.info.flagged_categories.elems) > 0),
              flagged_categories |-> mod.info.flagged_categories,
              error |-> ErrorMember(mod)],
         jailbreak |-> [failed |-> jb.tripwireTriggered, error |-> ErrorMember(jb)],
         hallucination |-> [failed |-> hal.tripwireTriggered,
                            error |-> ErrorMember(hal)]]

\* toCleanString(value)
ToCleanString(value) == IF value.t = "string" THEN Trim(value.s) ELSE <<>>

\* `a || b`
OrElse(a, b) == IF Truthy(a) THEN a ELSE b

\* input_variables of a request: the members runWorkflow reads.  `listings`
\* is Array(..) when the member is an array, Missing when it is anything else.
Variables(location, keywords, listings) ==
    [location |-> location, priceMin |-> JsAbsent, priceMax |-> JsAbsent, beds |-> JsAbsent,
     baths |-> JsAbsent, type |-> JsAbsent, keywords |-> keywords, listings |-> listings]

\* `workflow.input_variables ?? {}`
NoVariables == Variables(JsAbsent, JsAbsent, Missing)
VariablesOf(w) == IF w.has_variables THEN w.input_variables ELSE NoVariables

\* The local `criteria`.
Criteria(w) ==
    LET variables == VariablesOf(w)
        location == ToCleanString(variables.location)
    IN  [location |-> IF location # <<>> THEN location ELSE DEFAULT_LOCATION,
         priceMin |-> ToCleanString(variables.priceMin),
         priceMax |-> ToCleanString(variables.priceMax),
         beds |-> ToCleanString(variables.beds),
         baths |-> ToCleanString(variables.baths),
         type |-> ToCleanString(variables.type),
         keywords |-> ToCleanString(OrElse(variables.keywords, w.input_as_text))]

\* The local `listingsInput`.
ListingsInput(w) ==
    IF VariablesOf(w).listings.set THEN VariablesOf(w).listings.elems ELSE <<>>

\* JSON.stringify of a number: NaN is written as null.
JsonNumberOf(v) == IF v.t = "NaN" THEN JsAbsent ELSE v
JsonListing(l) ==
    [l EXCEPT !.price = JsonNumberOf(l.price),
              !.beds = JsonNumberOf(l.beds),
              !.baths = JsonNumberOf(l.baths)]

\* buildResultsJson(listings): the payload as JSON text inside a quoted fence.
BuildResultsJson(listings) ==
    [fence |-> "json",
     payload |-> [listings |-> [i \in 1..Len(listings) |-> JsonListing(listings[i])],
                  schema |-> <<"mls", "url", "price", "note_en", "note_fr">>]]

TYPE_OPTIONS == <<"", "house", "condo", "multiplex", "land", "commercial">>
BEDS_OPTIONS == <<"", "1", "2", "3", "4", "5">>
BATHS_OPTIONS == <<"", "1", "2", "3">>

\* The local `output`.
Output(c, listings) ==
    [title |-> "Quebec Listings / Annonces Quebec",
     criteria |-> c,
     typeOptions |-> TYPE_OPTIONS,
     bedsOptions |-> BEDS_OPTIONS,
     bathsOptions |-> BATHS_OPTIONS,
     hasResults |-> Len(listings) > 0,
     resultsJson |-> BuildResultsJson(listings)]

\* The value returned at lines 248-251; output_text is the JSON text of output.
WorkflowResponse(c, listings) ==
    [kind |-> "output",
     output_text |-> [json |-> Output(c, [i \in 1..Len(listings) |-> JsonListing(listings[i])])],
     output_parsed |-> Output(c, listings)]

\* The requests.
Chars_Condo == <<"c", "o", "n", "d", "o">>
InputTexts == {JsAbsent, JsStr(<<>>), JsStr(Chars_Condo)}
FlowLists ==
    {Missing, Array(<<>>), Array(<<ItemA>>), Array(<<ItemA, ItemADup>>),
     Array(<<ItemPriceString, ItemNotObject>>), Array(<<ItemBare, ItemPriceNumberAlias>>)}
InputVariables ==
    { Variables(location, keywords, listings) :
        location \in {JsAbsent, JsStr(<<" ", "M", "t", "l", " ">>), JsInt(5)},
        keywords \in {JsAbsent, JsStr(<<" ", "l", "o", "f", "t">>)},
        listings \in FlowLists }
Workflows ==
    { [input_as_text |-> text, has_variables |-> FALSE, input_variables |-> NoVariables] :
        text \in InputTexts }
    \cup { [input_as_text |-> text, has_variables |-> TRUE, input_variables |-> v] :
             text \in InputTexts, v \in InputVariables }

\* The normaliser has not been called.
NormNotCalled ==
    /\ npc = "idle"
    /\ seen = {}
    /\ out = <<>>
    /\ consumed = 0
    /\ stopped = FALSE
    /\ ignored = <<>>
    /\ normResult = <<>>
    /\ items = <<>>

FlowInit ==
    /\ AgentIdle
    /\ AuxIdle
    /\ NormNotCalled
    /\ wpc = "start"
    /\ workflow \in Workflows
    /\ guardrailsResult = <<>>
    /\ criteria = NoCriteria
    /\ response = NoResponse

\* Lines 218-219: the guardrails are run on the request text.
RunGuardrails(results) ==
    /\ wpc = "start"
    /\ guardrailsResult' = results
    /\ wpc' = "guarded"
    /\ UNCHANGED <<workflow, criteria, response>>
    /\ UNCHANGED <<agentVars, normVars, auxVars>>

\* Lines 220-222: a tripwire ends the call with the guardrail-failure object.
ShortCircuit ==
    /\ wpc = "guarded"
    /\ GuardrailsHasTripwire(guardrailsResult)
    /\ response' = BuildGuardrailFailOutput(guardrailsResult)
    /\ wpc' = "returned"
    /\ UNCHANGED <<workflow, guardrailsResult, criteria>>
    /\ UNCHANGED <<agentVars, normVars, auxVars>>

\* Lines 224-236: criteria are assembled and the normaliser is called on
\* input_variables.listings.
AssembleAndNormalize ==
    /\ wpc = "guarded"
    /\ ~GuardrailsHasTripwire(guardrailsResult)
    /\ criteria' = Criteria(workflow)
    /\ npc = "idle"
    /\ npc' = "loop"
    /\ items' = ListingsInput(workflow)
    /\ wpc' = "normalizing"
    /\ UNCHANGED <<workflow, guardrailsResult, response>>
    /\ UNCHANGED <<seen, out, consumed, stopped, ignored, normResult>>
    /\ UNCHANGED <<agentVars, auxVars>>

\* Lines 238-251: the response is shaped from what the normaliser returned.
ShapeResponse ==
    /\ wpc = "normalizing"
    /\ npc = "returned"
    /\ response' = WorkflowResponse(criteria, normResult)
    /\ wpc' = "returned"
    /\ UNCHANGED <<workflow, guardrailsResult, criteria>>
    /\ UNCHANGED <<agentVars, normVars, auxVars>>

\* Line 236: an exception of the normaliser leaves runWorkflow.
FlowThrows ==
    /\ wpc = "normalizing"
    /\ npc = "threw"
    /\ wpc' = "threw"
    /\ UNCHANGED <<workflow, guardrailsResult, criteria, response>>
    /\ UNCHANGED <<agentVars, normVars, auxVars>>

FlowNext ==
    \/ \E results \in GuardrailOutcomes : RunGuardrails(results)
    \/ ShortCircuit
    \/ AssembleAndNormalize
    \/ MoreItems /\ SkipItem(Item)
    \/ MoreItems /\ VisitThrows(Item)
    \/ MoreItems /\ AcceptItem(Item)
    \/ MoreItems /\ MergeItem(Item)
    \/ (~MoreItems \/ stopped) /\ ReturnListings
    \/ ShapeResponse
    \/ FlowThrows

FlowSpec == FlowInit /\ [][FlowNext]_vars

ToolResults == UNION { ExecutorResults(name) : name \in ToolExecutors }

Next ==
    \/ StartNoKey
    \/ StartWithKey
    \/ LoopExit
    \/ \E m \in ModelErrors : ModelCallFails(m)
    \/ ModelReturnsNull
    \/ ModelReturnsNoChoice
    \/ /\ toolCalls < MaxToolCalls
       /\ \E calls \in CallLists(iterations + 1, MaxToolCalls - toolCalls)
                         \cup MalformedLists(iterations + 1, MaxToolCalls - toolCalls) :
            \E fr \in FinishReasons : ModelRequestsTools(calls, fr)
    \/ ExecUnknownTool
    \/ \E r \in ToolResults : ExecTool(r)
    \/ ExecMalformedCall
    \/ \E fr \in FinishReasons, c \in Contents : ModelAnswers(fr, c)
    \/ \E c \in Contents : ModelContentFilter(c)
    \/ \E fr \in FinishReasons, c \in Contents : ModelUnexpectedFinish(fr, c)

Init == AgentInit /\ NormIdle /\ FlowIdle /\ AuxIdle
Spec == Init /\ [][Next]_vars

(***************************************************************************)
(*                    Properties of runListingAgent                        *)
(***************************************************************************)
Last(s) == s[Len(s)]

\* The run ended on a response without tool calls.
EndedOnAnswer == pc \in {"done", "threw"} /\ choice.kind = "choice" /\ choice.ncalls = 0

\* C1: in every run at most MAX_AGENT_STEPS (6) chat-completion calls are
\* issued, whatever the model answers; there is never a seventh.
C1_AtMostSixModelCalls == modelCalls <= 6

\* A run that spent the whole budget on tool turns.
C1_Witness ==
    /\ pc = "done"
    /\ modelCalls = 6
    /\ iterations = 6
    /\ toolCalls >= 6
    /\ choice.kind = "none"

\* C2 (as claimed): a run in which no response carried finish reason stop or
\* length returns empty listings and at least one warning.
C2_NoStopMeansWarnings ==
    (pc = "done" /\ ~KeyMissing(apiKey) /\ ~stopSeen)
        => (result.listings = <<>> /\ result.warnings # <<>>)

\* C3 (as claimed): no exception leaves runListingAgent.
C3_NeverThrows == outcome # "Threw"

\* The assistant message at index i has had its j-th tool call visited.
Visited(i, j) ==
    IF pc = "tools" /\ \A k \in (i + 1)..Len(messages) : messages[k].role # "assistant"
    THEN j <= Len(messages[i].tool_calls) - Len(pending)
    ELSE TRUE

IsUnknown(call) == call.name # Undefined /\ call.name \notin ToolExecutors

UnknownToolMessage(call) ==
    Msg("tool", "{\"error\":\"Unknown tool " \o call.name \o "\"}", call.id, <<>>)

C5_FailedShape ==
    outcome = "Failed"
        => /\ pc = "done"
           /\ result.listings = <<>>
           /\ result.sources = <<>>
           /\ result.notes_en = Null
           /\ result.notes_fr = Null
           /\ result.rawResponse = Null

\* A run failed by the content filter after tools were run.
C5_Witness ==
    /\ outcome = "Failed"
    /\ choice.kind = "choice"
    /\ choice.finish_reason = "content_filter"
    /\ choice.content = ContentAnswer
    /\ toolExecs > 0

\* C6: an answer without tool calls, with finish reason stop or length, whose
\* text is not JSON ends the run Completed with empty listings and sources,
\* the text itself as rawResponse ("" when the message has no content), and no
\* warning.
C6_UnparseableCompletes ==
    (/\ EndedOnAnswer
     /\ choice.finish_reason \in {"stop", "length"}
     /\ choice.content \in {Undefined, ContentEmpty, ContentNotJson})
        => /\ outcome = "Completed"
           /\ result.listings = <<>>
           /\ result.sources = <<>>
           /\ result.notes_en = Null
           /\ result.notes_fr = Null
           /\ result.rawResponse = (IF choice.content = Undefined THEN "" ELSE choice.content)
           /\ result.warnings = <<>>

C6_Witness ==
    /\ EndedOnAnswer
    /\ choice.finish_reason = "length"
    /\ choice.content = ContentNotJson
    /\ outcome = "Completed"
    /\ result.rawResponse = ContentNotJson

\* C7: a failed model call ends the run: its error text is the last warning,
\* the run is Failed, and no model call or tool execution follows it.
C7_FailedCallTerminal ==
    failedCall.set
        => /\ pc = "done"
           /\ outcome = "Failed"
           /\ result.warnings # <<>>
           /\ Last(result.warnings) = failedCall.text
           /\ modelCalls = failedCall.calls
           /\ toolExecs = failedCall.execs

C7_Witness ==
    /\ failedCall.set
    /\ failedCall.text = "OpenAI API error: 500 Internal Server Error - overloaded"
    /\ failedCall.calls = 3
    /\ toolExecs > 0
    /\ outcome = "Failed"

\* C8: an answer without tool calls whose finish reason is neither stop nor
\* length ends the run Failed with exactly one warning: the fixed
\* content-filter text, or else the unexpected reason verbatim.
C8_FinishReasonWarning ==
    (EndedOnAnswer /\ choice.finish_reason \notin {"stop", "length"})
        => /\ outcome = "Failed"
           /\ result.warnings =
                IF choice.finish_reason = "content_filter"
                THEN <<"OpenAI content filter blocked the response">>
                ELSE <<"Unexpected finish reason: " \o choice.finish_reason>>

C8_Witness ==
    /\ EndedOnAnswer
    /\ choice.finish_reason = "function_call"
    /\ outcome = "Failed"
    /\ result.warnings = <<"Unexpected finish reason: function_call">>
    /\ modelCalls > 1

(***************************************************************************)
(*              Properties of normalizeAndDedupeListings                   *)
(***************************************************************************)
\* The fields a merge fills.
MergedFields == {"address", "price", "beds", "baths", "type", "note_fr", "note_en"}

\* C9: whatever the raw list, the returned list has at most 12 records.
C9_AtMostTwelve == npc = "returned" => Len(normResult) <= 12

\* A list of more than 12 items, some of them left unvisited, gave 12 records.
C9_Witness ==
    /\ npc = "returned"
    /\ consumed > 12
    /\ ignored # <<>>
    /\ Len(normResult) = 12

\* The input went on, past the cap, with a duplicate of an accepted record.
DuplicatePastCap ==
    /\ npc = "returned"
    /\ stopped
    /\ ignored # <<>>
    /\ IsRecord(ignored[1])
    /\ ~NormalizeThrows(ignored[1])
    /\ SeenHas(IdentityKey(ignored[1], Len(out)))

\* C10 (as claimed): a duplicate that arrives after the output reached 12
\* records is still merged: every field it has is present in the returned
\* record of its key.
C10_DuplicateMergedPastCap ==
    DuplicatePastCap
        => LET late == Normalized(ignored[1])
               kept == normResult[SeenGet(IdentityKey(ignored[1], Len(out))) + 1]
           IN  \A f \in MergedFields : NotNull(late[f]) => NotNull(kept[f])

\* C10 (amended): once the output holds 12 records it never changes again, and
\* it is what is returned: no later item, duplicate or new, is taken in.  A
\* duplicate is merged only while the output holds fewer than 12 records.
C10_NothingMergedPastCap ==
    /\ [][Len(out) >= 12 => out' = out]_vars
    /\ [](Len(out) >= 12 => stopped)
    /\ []((npc = "returned" /\ stopped) => normResult = out)

\* A duplicate with a price came after the cap; the record of its key has none.
C10_Witness ==
    /\ DuplicatePastCap
    /\ ignored[1] = ItemADup
    /\ \E i \in 1..Len(normResult) :
          /\ normResult[i].mls = JsStr(Chars_A1)
          /\ normResult[i].price = JsAbsent
          /\ Normalized(ignored[1]).price = JsInt(4)

(***************************************************************************)
(*       Properties of normalizeAndDedupeListings on given lists           *)
(***************************************************************************)
\* The identifier of a raw record, as `first` resolves it.
IdentifierOf(record) ==
    FirstOf(<<record.mls, record.MLS, record.listingId, record.listing_id, record.MLSreg>>)

\* The record names no identifier, or one that is empty once trimmed.
IdentifierBlank(record) ==
    \/ ~NotNull(IdentifierOf(record))
    \/ Trim(JsString(IdentifierOf(record))) = <<>>

\* C11 (as claimed): every returned record has a non-empty string as mls, and a
\* record whose identifier is absent or empty after trimming gets the sentinel.
C11_MlsNeverEmpty ==
    npc = "returned"
        => /\ \A i \in 1..Len(normResult) :
                normResult[i].mls.t = "string" /\ normResult[i].mls.s # <<>>
           /\ (Len(items) = 1 /\ Len(normResult) = 1 /\ IdentifierBlank(items[1]))
                => normResult[1].mls = JsStr(Sentinel)

\* The record's identifier field holds the sentinel text itself.
HoldsSentinel(record) ==
    /\ IsRecord(record)
    /\ NotNull(IdentifierOf(record))
    /\ Trim(JsString(IdentifierOf(record))) = Sentinel

ShareUrl(a, b) == Truthy(UrlOf(a)) /\ UrlOf(a) = UrlOf(b)

\* C12 (as claimed): two records whose identifier is the sentinel text and
\* which do not share a URL are never merged: both are in the output.
C12_SentinelNeverMerged ==
    (/\ npc = "returned"
     /\ Len(items) = 2
     /\ HoldsSentinel(items[1])
     /\ HoldsSentinel(items[2])
     /\ ~ShareUrl(items[1], items[2]))
        => Len(normResult) = 2

\* The identifier text of a record once trimmed, and folded to upper case.
IdentifierText(record) == Trim(JsString(IdentifierOf(record)))
IdentifierFolded(record) == ToUpperCase(IdentifierText(record))

\* The record names an identifier of its own (not a blank, not the sentinel).
HasIdentifier(record) ==
    IsRecord(record) /\ ~IdentifierBlank(record) /\ ~HoldsSentinel(record)

\* The first item of the list that holds the identifier of items[i].
FirstHolder(i) ==
    CHOOSE f \in 1..i :
        /\ HasIdentifier(items[f])
        /\ IdentifierFolded(items[f]) = IdentifierFolded(items[i])
        /\ \A g \in 1..(f - 1) :
              ~(HasIdentifier(items[g])
                /\ IdentifierFolded(items[g]) = IdentifierFolded(items[i]))

DataFields == MergedFields \cup {"url"}

\* The list is two records that come under one identity key.
TwoUnderOneKey ==
    /\ Len(items) = 2
    /\ IsRecord(items[1]) /\ ~NormalizeThrows(items[1])
    /\ IsRecord(items[2]) /\ ~NormalizeThrows(items[2])
    /\ IdentityKey(items[1], 0) = IdentityKey(items[2], 1)

\* C14 (as claimed): of two records under one identity key, every field that
\* either of them has (url included) is present in the one record returned.
C14_EveryFieldFilled ==
    (npc = "returned" /\ TwoUnderOneKey)
        => /\ Len(normResult) = 1
           /\ \A f \in DataFields :
                (NotNull(Normalized(items[1])[f]) \/ NotNull(Normalized(items[2])[f]))
                    => NotNull(normResult[1][f])

\* C15: a field of an accepted record that holds a value keeps that value at
\* every later step, whatever duplicates follow, and the record stays at its
\* index; the list returned is the list so built.
C15_FirstWriteWins ==
    /\ [][\A i \in 1..Len(out) :
            /\ i <= Len(out')
            /\ \A f \in DataFields \cup {"mls"} :
                  NotNull(out[i][f]) => out'[i][f] = out[i][f]]_vars
    /\ [](npc = "returned" => normResult = out)

\* Two duplicates followed "A1": the second address lost against the first,
\* beds and price were taken from the duplicates.
C15_Witness ==
    /\ npc = "returned"
    /\ items = <<ItemA, ItemAConflict, ItemADup>>
    /\ Len(normResult) = 1
    /\ normResult[1].address = JsStr(<<"1", " ", "R", "u", "e">>)
    /\ normResult[1].beds = JsInt(3)
    /\ normResult[1].price = JsInt(4)

\* A finite number that is not negative.
FiniteNonNegative(v) == v.t = "number" /\ v.n >= 0

\* C16 (as claimed): in every returned record price, beds and baths are each
\* absent or a finite non-negative number, beds a whole one; never NaN and
\* never negative.
C16_NumbersFiniteNonNegative ==
    npc = "returned"
        => \A i \in 1..Len(normResult) :
              /\ \A f \in {"price", "beds", "baths"} :
                    ~NotNull(normResult[i][f]) \/ FiniteNonNegative(normResult[i][f])
              /\ NotNull(normResult[i].beds) => normResult[i].beds.d = 0

\* The value the price of a record is read from: the price field, else the
\* first alias.
PriceSource(record) ==
    IF NotNull(record.price) THEN record.price ELSE PriceAlias(record)

\* A price given as text with digits in it.
PriceLikeText(record) ==
    /\ IsRecord(record)
    /\ PriceSource(record).t = "string"
    /\ KeepDigits(PriceSource(record).s) # <<>>

\* C17 (as claimed): a price given as price-like text, in the price field or
\* in an alias, comes out as the number its digit characters spell.
C17_PriceFromDigits ==
    (npc = "returned" /\ Len(items) = 1 /\ PriceLikeText(items[1]))
        => /\ Len(normResult) = 1
           /\ normResult[1].price = JsInt(DigitsValue(KeepDigits(PriceSource(items[1]).s)))

\* pos places the returned records on the items they were first seen at: in
\* rising order, each on the first record of its key, and every record left
\* out comes under the key of one placed before it.
PlacesFirstSeen(pos) ==
    /\ \A k, l \in 1..Len(normResult) : k < l => pos[k] < pos[l]
    /\ \A k \in 1..Len(normResult) :
          /\ IsRecord(items[pos[k]])
          /\ normResult[k].mls = Normalized(items[pos[k]]).mls
          /\ normResult[k].url = Normalized(items[pos[k]]).url
          /\ \A l \in 1..(k - 1) :
                IdentityKey(items[pos[l]], l - 1) # IdentityKey(items[pos[k]], k - 1)
    /\ \A g \in 1..Len(items) :
          (IsRecord(items[g]) /\ \A k \in 1..Len(normResult) : pos[k] # g)
              => \E k \in 1..Len(normResult) :
                    /\ pos[k] < g
                    /\ IdentityKey(items[pos[k]], k - 1)
                         = IdentityKey(items[g], Cardinality({l \in 1..Len(normResult) : pos[l] < g}))

\* C18: the returned records stand in the order in which their keys first
\* occur in the input, and no step moves, renames or removes a record that
\* was accepted.
C18_FirstSeenOrder ==
    /\ [](npc = "returned"
            => \E pos \in [1..Len(normResult) -> 1..Len(items)] : PlacesFirstSeen(pos))
    /\ [][/\ Len(out') >= Len(out)
          /\ \A i \in 1..Len(out) :
                out'[i].mls = out[i].mls /\ out'[i].url = out[i].url]_vars

\* A duplicate of the first record came after a second record was accepted:
\* it filled the first record where it stood.
C18_Witness ==
    /\ npc = "returned"
    /\ items = <<ItemADup, ItemBare, ItemA>>
    /\ Len(normResult) = 2
    /\ normResult[1].mls = JsStr(<<"a", "1">>)
    /\ normResult[1].address = JsStr(<<"1", " ", "R", "u", "e">>)
    /\ normResult[2].mls = JsStr(Sentinel)

(***************************************************************************)
(*                      Properties of runWorkflow                          *)
(***************************************************************************)
\* Some guardrail result has tripwireTriggered true.
TripwireReported ==
    \E i \in 1..Len(guardrailsResult) : guardrailsResult[i].tripwireTriggered

\* C19: once a guardrail result reports a tripwire, the only step runWorkflow
\* takes is the return of the guardrail-failure object: criteria are never
\* assembled, the normaliser and the agent loop never run.  The object has
\* its pii, moderation, jailbreak and hallucination sections, and when the
\* Moderation check tripped, moderation.failed is true and
\* moderation.flagged_categories is the array that was reported.
C19_TripwireShortCircuits ==
    /\ [](TripwireReported
            => /\ wpc \in {"guarded", "returned"}
               /\ criteria = NoCriteria
               /\ npc = "idle" /\ consumed = 0 /\ normResult = <<>>
               /\ pc = "start" /\ modelCalls = 0)
    /\ []((TripwireReported /\ wpc = "returned")
            => /\ response.kind = "guardrail_fail"
               /\ {"pii", "moderation", "jailbreak", "hallucination"} \subseteq DOMAIN response
               /\ \A i \in 1..Len(guardrailsResult) :
                     (/\ guardrailsResult[i].tripwireTriggered
                      /\ GuardrailName(guardrailsResult[i]) = "Moderation")
                         => /\ response.moderation.failed
                            /\ guardrailsResult[i].info.flagged_categories.set
                                 => response.moderation.flagged_categories
                                      = guardrailsResult[i].info.flagged_categories)
    /\ [][(TripwireReported /\ wpc = "guarded") => wpc' = "returned"]_vars

\* Moderation tripped on a request that carried a listing to normalise.
C19_Witness ==
    /\ wpc = "returned"
    /\ guardrailsResult = <<ModerationTripped, PiiClean>>
    /\ workflow.has_variables
    /\ workflow.input_variables.listings = Array(<<ItemA>>)
    /\ response.kind = "guardrail_fail"
    /\ response.moderation.failed
    /\ response.moderation.flagged_categories = FlaggedHate
    /\ ~response.pii.failed
    /\ npc = "idle"

\* C20 (as claimed): when no tripwire is reported, runWorkflow has run the
\* agent loop by the time it returns, and what it normalised into the
\* response are the listings of the model's final answer.
C20_AgentLoopFeedsResponse ==
    (wpc = "returned" /\ ~TripwireReported)
        => /\ pc = "done"
           /\ modelCalls >= 1
           /\ items = result.listings

(***************************************************************************)
(* POST /runWorkflow: the express handler and the http.createServer        *)
(* listener of server.ts, each calling runWorkflow.                        *)
(***************************************************************************)
\* `2 * 1024 * 1024` of line 58 and the "2mb" of line 5.
BODY_LIMIT == 2 * 1024 * 1024

\* A chunk of the request body: its text and its length.
Piece(text) == [text |-> text, length |-> Len(text)]
\* A chunk of padding of the given length (its text stands for that many blanks).
Padding(length) == [text |-> " ", length |-> length]

Text_Open == "{\"input_as_text\":"
Text_Condo == "\"condo\"}"
Text_CondoVars == "\"condo\",\"input_variables\":{\"listings\":"
Text_Merging == "[{\"mls\":\"A1\",\"address\":\"1 Rue\"},{\"MLS\":\" a1 \",\"price\":4,\"url\":\"u\"}]}}"
Text_Skipping == "[{\"mls\":\"B2\",\"price\":\"$4,50\"},7]}}"
Text_Throwing == "[{},{\"priceText\":5}]}}"

\* The request bodies, as the chunks they arrive in.
Bodies ==
    { <<>>,
      <<Piece("{}")>>,
      <<Piece("null")>>,
      <<Piece(Text_Open)>>,
      <<Piece(Text_Open), Piece("5}")>>,
      <<Piece(Text_Open), Piece("\"  \"}")>>,
      <<Piece(Text_Open), Piece(Text_Condo)>>,
      <<Piece(Text_Open), Piece(Text_CondoVars), Piece(Text_Merging)>>,
      <<Piece(Text_Open), Piece(Text_CondoVars), Piece(Text_Skipping)>>,
      <<Piece(Text_Open), Piece(Text_CondoVars), Piece(Text_Throwing)>>,
      <<Padding(BODY_LIMIT - 2), Piece("{}")>>,
      <<Padding(BODY_LIMIT - 1), Piece("{}")>> }

Requests == { [server |-> s, incoming |-> b] : s \in {"express", "http"}, b \in Bodies }

\* `chunks.join("")`
RECURSIVE Join(_)
Join(pieces) == IF pieces = <<>> THEN "" ELSE Head(pieces).text \o Join(Tail(pieces))

RECURSIVE LengthOf(_)
LengthOf(pieces) == IF pieces = <<>> THEN 0 ELSE Head(pieces).length + LengthOf(Tail(pieces))

\* What JSON.parse makes of a text.
ParsedObject(text, listings) ==
    [kind |-> "object",
     value |-> [input_as_text |-> text,
                has_variables |-> listings.set,
                input_variables |-> Variables(JsAbsent, JsAbsent, listings)]]
ParsedNull == [kind |-> "null"]
ParseFailed == [kind |-> "error"]
ParseBody(text) ==
    CASE text \in {"{}", " {}"} -> ParsedObject(JsAbsent, Missing)
      [] text = "null" -> ParsedNull
      [] text = Text_Open \o "5}" -> ParsedObject(JsInt(5), Missing)
      [] text = Text_Open \o "\"  \"}" -> ParsedObject(JsStr(<<" ", " ">>), Missing)
      [] text = Text_Open \o Text_Condo -> ParsedObject(JsStr(Chars_Condo), Missing)
      [] text = Text_Open \o Text_CondoVars \o Text_Merging ->
            ParsedObject(JsStr(Chars_Condo), Array(<<ItemA, ItemADup>>))
      [] text = Text_Open \o Text_CondoVars \o Text_Skipping ->
            ParsedObject(JsStr(Chars_Condo), Array(<<ItemPriceString, ItemNotObject>>))
      [] text = Text_Open \o Text_CondoVars \o Text_Throwing ->
            ParsedObject(JsStr(Chars_Condo), Array(<<ItemBare, ItemPriceNumberAlias>>))
      [] OTHER -> ParseFailed

\* `typeof input_as_text !== "string" || !input_as_text.trim()`
TextRefused(text) == IF text.t = "string" THEN Trim(text.s) = <<>> ELSE TRUE

Reply(status, content) == [status |-> status, body |-> content]
ErrorBody(message) == [error |-> message]
TextRequired == ErrorBody("input_as_text (string) is required")

ServerInit ==
    /\ AgentIdle
    /\ NormNotCalled
    /\ FlowIdle
    /\ ServerRestIdle
    /\ spc = "receiving"
    /\ request \in Requests
    /\ chunks = <<>>
    /\ total = 0
    /\ body = [kind |-> "none"]
    /\ responses = <<>>
    /\ invoked = 0

ServerFrame == UNCHANGED <<agentVars, normVars, serverRest>>
FlowFrame == UNCHANGED flowVars

\* Lines 55-63, else branch: a chunk within the limit is kept.
KeepChunk ==
    /\ spc = "receiving"
    /\ request.server = "http"
    /\ request.incoming # <<>>
    /\ total + Head(request.incoming).length <= BODY_LIMIT
    /\ total' = total + Head(request.incoming).length
    /\ chunks' = Append(chunks, Head(request.incoming))
    /\ request' = [request EXCEPT !.incoming = Tail(@)]
    /\ UNCHANGED <<spc, body, responses, invoked>>
    /\ ServerFrame /\ FlowFrame

\* Lines 58-59: the chunk that takes the total over the limit destroys the
\* request; "end" is never emitted and nothing is written to `res`.
DestroyRequest ==
    /\ spc = "receiving"
    /\ request.server = "http"
    /\ request.incoming # <<>>
    /\ total + Head(request.incoming).length > BODY_LIMIT
    /\ total' = total + Head(request.incoming).length
    /\ request' = [request EXCEPT !.incoming = Tail(@)]
    /\ spc' = "destroyed"
    /\ UNCHANGED <<chunks, body, responses, invoked>>
    /\ ServerFrame /\ FlowFrame

\* Lines 64-67: on "end" the body text is parsed; a SyntaxError is caught
\* at line 80 and answered with 500.
EndOfBody ==
    /\ spc = "receiving"
    /\ request.server = "http"
    /\ request.incoming = <<>>
    /\ LET text == IF Join(chunks) = "" THEN "{}" ELSE Join(chunks)
           parsed == ParseBody(text)
       IN  IF parsed = ParseFailed
           THEN /\ responses' = Append(responses, Reply(500, ErrorBody("SyntaxError")))
                /\ spc' = "responded"
                /\ UNCHANGED body
           ELSE /\ body' = parsed
                /\ spc' = "handling"
                /\ UNCHANGED responses
    /\ UNCHANGED <<request, chunks, total, invoked>>
    /\ ServerFrame /\ FlowFrame

\* Line 68 on a body that is null: reading `body.input_as_text` throws a
\* TypeError, caught at line 80.
ReadOfNullThrows ==
    /\ spc = "handling"
    /\ request.server = "http"
    /\ body = ParsedNull
    /\ responses' = Append(responses, Reply(500, ErrorBody("TypeError")))
    /\ spc' = "responded"
    /\ UNCHANGED <<request, chunks, total, body, invoked>>
    /\ ServerFrame /\ FlowFrame

\* Line 5: express.json reads the whole body before the handler runs. A body
\* over the limit is answered 413 and a body that is not a JSON object or
\* array 400, both by the framework; an empty body leaves `req.body` as {}.
ExpressJson ==
    /\ spc = "receiving"
    /\ request.server = "express"
    /\ LET text == Join(request.incoming)
           parsed == ParseBody(IF text = "" THEN "{}" ELSE text)
       IN  /\ total' = LengthOf(request.incoming)
           /\ chunks' = request.incoming
           /\ IF total' > BODY_LIMIT
              THEN /\ responses' = Append(responses, Reply(413, ErrorBody("PayloadTooLargeError")))
                   /\ spc' = "responded"
                   /\ UNCHANGED body
              ELSE IF parsed.kind # "object"
              THEN /\ responses' = Append(responses, Reply(400, ErrorBody("SyntaxError")))
                   /\ spc' = "responded"
                   /\ UNCHANGED body
              ELSE /\ body' = parsed
                   /\ spc' = "handling"
                   /\ UNCHANGED responses
    /\ request' = [request EXCEPT !.incoming = <<>>]
    /\ UNCHANGED invoked
    /\ ServerFrame /\ FlowFrame

\* Lines 11-14 and 68-72: a request without usable text is answered 400.
RejectRequest ==
    /\ spc = "handling"
    /\ body.kind = "object"
    /\ TextRefused(body.value.input_as_text)
    /\ responses' = Append(responses, Reply(400, TextRequired))
    /\ spc' = "responded"
    /\ UNCHANGED <<request, chunks, total, body, invoked>>
    /\ ServerFrame /\ FlowFrame

\* Lines 15 and 74-77: runWorkflow is called with the text and the variables.
InvokeRunWorkflow ==
    /\ spc = "handling"
    /\ body.kind = "object"
    /\ ~TextRefused(body.value.input_as_text)
    /\ wpc = "idle"
    /\ wpc' = "start"
    /\ workflow' = body.value
    /\ invoked' = invoked + 1
    /\ spc' = "awaiting"
    /\ UNCHANGED <<request, chunks, total, body, responses>>
    /\ UNCHANGED <<guardrailsResult, criteria, response>>
    /\ ServerFrame

\* Lines 16 and 78-79: the value runWorkflow resolved to is sent with 200.
RespondData ==
    /\ spc = "awaiting"
    /\ wpc = "returned"
    /\ responses' = Append(responses, Reply(200, response))
    /\ spc' = "responded"
    /\ UNCHANGED <<request, chunks, total, body, invoked>>
    /\ ServerFrame /\ FlowFrame

\* Lines 17-20 and 80-84: a rejection of runWorkflow is answered 500.
RespondError ==
    /\ spc = "awaiting"
    /\ wpc = "threw"
    /\ responses' = Append(responses, Reply(500, ErrorBody("TypeError")))
    /\ spc' = "responded"
    /\ UNCHANGED <<request, chunks, total, body, invoked>>
    /\ ServerFrame /\ FlowFrame

ServerNext ==
    \/ KeepChunk
    \/ DestroyRequest
    \/ EndOfBody
    \/ ReadOfNullThrows
    \/ ExpressJson
    \/ RejectRequest
    \/ InvokeRunWorkflow
    \/ RespondData
    \/ RespondError
    \/ \E results \in GuardrailOutcomes : RunGuardrails(results)
    \/ ShortCircuit
    \/ AssembleAndNormalize
    \/ MoreItems /\ SkipItem(Item)
    \/ MoreItems /\ VisitThrows(Item)
    \/ MoreItems /\ AcceptItem(Item)
    \/ MoreItems /\ MergeItem(Item)
    \/ (~MoreItems \/ stopped) /\ ReturnListings
    \/ ShapeResponse
    \/ FlowThrows

ServerSpec == ServerInit /\ [][ServerNext]_vars

\* The request is over: a response was written or the request was destroyed.
RequestOver == spc \in {"responded", "destroyed"}
\* The body as the client sent it.
BodySent == ParseBody(IF Join(chunks) = "" THEN "{}" ELSE Join(chunks))
\* The request carries no usable input_as_text.
TextUnusable ==
    \/ BodySent = ParsedNull
    \/ BodySent.kind = "object" /\ TextRefused(BodySent.value.input_as_text)

\* C21: every POST /runWorkflow request receives exactly one response: 400
\* when input_as_text is missing, not a string or blank (runWorkflow never
\* invoked), 200 with the result when runWorkflow returns, and 500 with an
\* {error} body when the handling fails.
C21_ExactlyOneResponse ==
    /\ Len(responses) <= 1
    /\ RequestOver =>
         /\ Len(responses) = 1
         /\ (total <= BODY_LIMIT /\ TextUnusable) =>
                responses[1].status = 400 /\ invoked = 0
         /\ wpc = "returned" => responses[1] = Reply(200, response)
         /\ wpc = "threw" =>
                responses[1].status = 500 /\ DOMAIN responses[1].body = {"error"}

(***************************************************************************)
(* fetchHtmlPage (part_002, lines 188-215): one AbortController and one    *)
(* timer for the whole call, up to three attempts.                         *)
(***************************************************************************)
Urls == {"https://a.example/1", "https://b.example/2"}

\* `attempt < 3` of line 199.
AttemptsLeftOffByOne(n) == n <= 3
AttemptsLeft(n) == n < 3

AbortError == "AbortError: This operation was aborted"
NetworkError == "TypeError: fetch failed"
HttpError == "Error: HTTP 503"
BodyError == "TypeError: terminated"

\* Line 211: the message of the terminal failure.
TerminalMessage(url, err) == "fetchHtmlPage failed for " \o url \o ": " \o err

Fetched(url, html) == [kind |-> "returned", url |-> url, html |-> html]
FetchFailed(message) == [kind |-> "threw", message |-> message]

\* An attempt as it was issued: whether the signal was already aborted and
\* whether the timer was still pending.
Issued(signalAborted, timerPending) ==
    [signalAborted |-> signalAborted, timerPending |-> timerPending, outcome |-> "pending"]
Ended(log, how) == [log EXCEPT ![Len(log)].outcome = how]

FetchFrame == UNCHANGED <<agentVars, normVars, flowVars, fetchRest>>

FetchInit ==
    /\ AgentIdle
    /\ NormIdle
    /\ FlowIdle
    /\ FetchRestIdle
    /\ fpc = "start"
    /\ fetchUrl \in Urls
    /\ attempt = 0
    /\ aborted = FALSE
    /\ timerArmed = FALSE
    /\ lastErr = Null
    /\ fetches = 0
    /\ attemptLog = <<>>
    /\ fetchResult = [kind |-> "none"]

\* Lines 190-198: the controller and the timer are created once, before the loop.
ArmTimer ==
    /\ fpc = "start"
    /\ timerArmed' = TRUE
    /\ fpc' = "loop"
    /\ UNCHANGED <<fetchUrl, attempt, aborted, lastErr, fetches, attemptLog, fetchResult>>
    /\ FetchFrame

\* Line 201: fetch is called with the controller's signal, which is not aborted.
IssueFetch ==
    /\ fpc = "loop"
    /\ AttemptsLeft(attempt)
    /\ ~aborted
    /\ fetches' = fetches + 1
    /\ attemptLog' = Append(attemptLog, Issued(aborted, timerArmed))
    /\ fpc' = "inflight"
    /\ UNCHANGED <<fetchUrl, attempt, aborted, timerArmed, lastErr, fetchResult>>
    /\ FetchFrame

\* Line 201 with a signal that is already aborted: fetch rejects at once with
\* an AbortError and no request leaves; lines 206-207 catch it.
IssueFetchOnAbortedSignal ==
    /\ fpc = "loop"
    /\ AttemptsLeft(attempt)
    /\ aborted
    /\ fetches' = fetches + 1
    /\ attemptLog' = Ended(Append(attemptLog, Issued(aborted, timerArmed)), "rejected at once")
    /\ lastErr' = AbortError
    /\ fpc' = "sleeping"
    /\ UNCHANGED <<fetchUrl, attempt, aborted, timerArmed, fetchResult>>
    /\ FetchFrame

\* Line 191: the timer fires and aborts the controller. A fetch in flight is
\* rejected with an AbortError (caught at 206); during the sleep of line 208
\* only the signal changes.
TimerFires ==
    /\ timerArmed
    /\ fpc \in {"inflight", "sleeping"}
    /\ timerArmed' = FALSE
    /\ aborted' = TRUE
    /\ IF fpc = "inflight"
       THEN /\ attemptLog' = Ended(attemptLog, "timeout")
            /\ lastErr' = AbortError
            /\ fpc' = "sleeping"
       ELSE UNCHANGED <<attemptLog, lastErr, fpc>>
    /\ UNCHANGED <<fetchUrl, attempt, fetches, fetchResult>>
    /\ FetchFrame

\* Lines 201-203: a response arrives; the timer is cleared; a status outside
\* 2xx is thrown as an error and caught at 206.
ResponseArrives(ok) ==
    /\ fpc = "inflight"
    /\ timerArmed' = FALSE
    /\ IF ok
       THEN /\ fpc' = "reading"
            /\ UNCHANGED <<lastErr, attemptLog>>
       ELSE /\ lastErr' = HttpError
            /\ attemptLog' = Ended(attemptLog, "status")
            /\ fpc' = "sleeping"
    /\ UNCHANGED <<fetchUrl, attempt, aborted, fetches, fetchResult>>
    /\ FetchFrame

\* Line 201: the fetch is rejected by the network.
FetchRejects ==
    /\ fpc = "inflight"
    /\ lastErr' = NetworkError
    /\ attemptLog' = Ended(attemptLog, "network")
    /\ fpc' = "sleeping"
    /\ UNCHANGED <<fetchUrl, attempt, aborted, timerArmed, fetches, fetchResult>>
    /\ FetchFrame

\* Lines 204-205: the body is read and the page returned.
ReturnPage ==
    /\ fpc = "reading"
    /\ attemptLog' = Ended(attemptLog, "success")
    /\ fetchResult' = Fetched(fetchUrl, "<html>")
    /\ fpc' = "returned"
    /\ UNCHANGED <<fetchUrl, attempt, aborted, timerArmed, lastErr, fetches>>
    /\ FetchFrame

\* Line 204: reading the body fails; caught at 206.
BodyReadFails ==
    /\ fpc = "reading"
    /\ lastErr' = BodyError
    /\ attemptLog' = Ended(attemptLog, "body")
    /\ fpc' = "sleeping"
    /\ UNCHANGED <<fetchUrl, attempt, aborted, timerArmed, fetches, fetchResult>>
    /\ FetchFrame

\* Lines 208 and 199: the sleep ends and the loop variable is incremented.
NextAttempt ==
    /\ fpc = "sleeping"
    /\ attempt' = attempt + 1
    /\ fpc' = "loop"
    /\ UNCHANGED <<fetchUrl, aborted, timerArmed, lastErr, fetches, attemptLog, fetchResult>>
    /\ FetchFrame

\* Line 211: the loop is over and the terminal failure is thrown.
ThrowTerminal ==
    /\ fpc = "loop"
    /\ ~AttemptsLeft(attempt)
    /\ fetchResult' = FetchFailed(TerminalMessage(fetchUrl, lastErr))
    /\ fpc' = "threw"
    /\ UNCHANGED <<fetchUrl, attempt, aborted, timerArmed, lastErr, fetches, attemptLog>>
    /\ FetchFrame

FetchNext ==
    \/ ArmTimer
    \/ IssueFetch
    \/ IssueFetchOnAbortedSignal
    \/ TimerFires
    \/ \E ok \in BOOLEAN : ResponseArrives(ok)
    \/ FetchRejects
    \/ ReturnPage
    \/ BodyReadFails
    \/ NextAttempt
    \/ ThrowTerminal

FetchSpec == FetchInit /\ [][FetchNext]_vars

FailedAttempts == { i \in DOMAIN attemptLog : attemptLog[i].outcome \notin {"pending", "success"} }
LastFailure ==
    CASE attemptLog[Len(attemptLog)].outcome \in {"timeout", "rejected at once"} -> AbortError
      [] attemptLog[Len(attemptLog)].outcome = "status" -> HttpError
      [] attemptLog[Len(attemptLog)].outcome = "network" -> NetworkError
      [] attemptLog[Len(attemptLog)].outcome = "body" -> BodyError
      [] OTHER -> Null

\* C22: fetchHtmlPage makes at most 3 fetch attempts per invocation; it
\* returns {url, html} at the first successful attempt and makes no further
\* attempt; only after 3 failed attempts does it throw the terminal failure,
\* whose message names the URL and the last underlying error.
C22_AtMostThreeAttempts ==
    /\ [](/\ fetches <= 3
          /\ Len(attemptLog) = fetches
          /\ fpc = "returned" =>
                /\ fetchResult = Fetched(fetchUrl, "<html>")
                /\ attemptLog[fetches].outcome = "success"
                /\ FailedAttempts = 1..(fetches - 1)
          /\ fpc = "threw" =>
                /\ fetches = 3
                /\ FailedAttempts = 1..3
                /\ fetchResult = FetchFailed("fetchHtmlPage failed for " \o fetchUrl \o ": " \o LastFailure)
          /\ fpc \notin {"returned", "threw"} => fetchResult = [kind |-> "none"])
    /\ [][(fpc \in {"returned", "threw"}) => (fetches' = fetches)]_vars

\* The page is returned on the third attempt, after two failures.
C22_Witness ==
    /\ fpc = "returned"
    /\ fetches = 3
    /\ attemptLog[1].outcome = "network"
    /\ attemptLog[2].outcome = "status"
C22_WitnessThrown == fpc = "threw" /\ attemptLog[3].outcome = "body"

\* Some attempt was cancelled by the timer and another attempt followed it.
AttemptsAfterTimeout ==
    { i \in DOMAIN attemptLog : i > 1 /\ \E j \in 1..(i - 1) : attemptLog[j].outcome = "timeout" }

\* C28: when an attempt is cancelled by the fetch timeout, the next attempt
\* is issued as a fresh request that is itself subject to the timeout and can
\* succeed; the timeout does not make the remaining attempts fail at once.
C28_TimeoutLeavesLaterAttemptsFresh ==
    \A i \in AttemptsAfterTimeout :
        /\ ~attemptLog[i].signalAborted
        /\ attemptLog[i].timerPending
        /\ attemptLog[i].outcome # "rejected at once"

\* What the code does instead: every attempt after a timeout is rejected at
\* once, so no call that saw a timeout returns a page.
TimeoutIsTerminal ==
    /\ \A i \in AttemptsAfterTimeout : attemptLog[i].outcome = "rejected at once"
    /\ (fpc = "returned") => \A i \in DOMAIN attemptLog : attemptLog[i].outcome # "timeout"

(***************************************************************************)
(* performWebSearch and runTavilySearch (agent.ts, lines 112-164).         *)
(***************************************************************************)
\* `args?.x`: a member of the arguments, undefined when args is null.
Args(query, max_results) == [isNull |-> FALSE, query |-> query, max_results |-> max_results]
NullArgs == [isNull |-> TRUE, query |-> JsAbsent, max_results |-> JsAbsent]
SearchArguments ==
    {NullArgs}
    \cup { Args(q, m) :
             q \in {JsAbsent, JsInt(5), JsStr(<<" ", " ">>), JsStr(<<" ", "l", "o", "f", "t">>)},
             m \in {JsAbsent, JsInt(0), JsInt(3), JsInt(50), JsStr(<<"4">>), JsStr(<<"a">>)} }
TavilyKeys == {Undefined, "", "tvly-key"}

\* Line 145: the trimmed query, or null.
QueryOf(args) ==
    IF args.query.t = "string"
    THEN IF Trim(args.query.s) # <<>> THEN JsStr(Trim(args.query.s)) ELSE JsAbsent
    ELSE JsAbsent
\* Lines 146-147: max_results as a finite number, else 6.
MaxResultsOf(args) ==
    LET raw == JsNumber(Coalesce(args.max_results, JsInt(6)))
    IN  IF raw.t = "number" THEN raw ELSE JsInt(6)
\* Line 117: `Math.min(Math.max(maxResults, 1), 10)` (whole numbers).
Clamped(v) == IF v.n < 1 THEN 1 ELSE IF v.n > 10 THEN 10 ELSE v.n

\* Lines 133-141: a result row of the backend and the row made of it.
Row(title, url, content, snippet) ==
    [isNull |-> FALSE, title |-> title, url |-> url, content |-> content, snippet |-> snippet]
NullRow == [isNull |-> TRUE, title |-> "", url |-> "", content |-> "", snippet |-> ""]
OrNull(text) == IF text = "" THEN Null ELSE text
MappedRow(row) ==
    [title |-> OrNull(row.title), url |-> OrNull(row.url),
     snippet |-> IF row.content # "" THEN row.content ELSE OrNull(row.snippet)]
BackendData ==
    { [hasResults |-> FALSE, results |-> <<>>],
      [hasResults |-> TRUE, results |-> <<>>],
      [hasResults |-> TRUE, results |-> <<Row("T", "u", "", "s"), NullRow>>],
      [hasResults |-> TRUE, results |-> <<Row("", "", "c", "s")>>] }

\* Lines 160-162: an error of the backing call is caught and returned.
SearchErrorThrown(message) == [kind |-> "threw", message |-> message]
SearchError(message) == [kind |-> "returned", value |-> [error |-> message]]
SearchFound(query, results) == [kind |-> "returned", value |-> [query |-> query, results |-> results]]

SearchFrame == UNCHANGED <<agentVars, normVars, flowVars, searchRest>>

SearchInit ==
    /\ AgentIdle
    /\ NormIdle
    /\ FlowIdle
    /\ SearchRestIdle
    /\ qpc = "start"
    /\ searchArgs \in SearchArguments
    /\ searchKey \in TavilyKeys
    /\ backend = "none"
    /\ sent = <<>>
    /\ searchResult = [kind |-> "none"]

\* Lines 145-151: no usable query.
QueryRequired ==
    /\ qpc = "start"
    /\ QueryOf(searchArgs) = JsAbsent
    /\ searchResult' = SearchError("query is required")
    /\ qpc' = "done"
    /\ UNCHANGED <<searchArgs, searchKey, backend, sent>>
    /\ SearchFrame

\* Lines 153-156: no API key in the environment.
KeyNotConfigured ==
    /\ qpc = "start"
    /\ QueryOf(searchArgs) # JsAbsent
    /\ searchKey \in {Undefined, ""}
    /\ searchResult' = SearchError("TAVILY_API_KEY is not configured")
    /\ qpc' = "done"
    /\ UNCHANGED <<searchArgs, searchKey, backend, sent>>
    /\ SearchFrame

\* Lines 158-159 and 113-128: the request is sent to the backend.
SendSearch ==
    /\ qpc = "start"
    /\ QueryOf(searchArgs) # JsAbsent
    /\ searchKey \notin {Undefined, ""}
    /\ sent' = Append(sent, [api_key |-> searchKey, query |-> QueryOf(searchArgs).s,
                             max_results |-> Clamped(MaxResultsOf(searchArgs))])
    /\ qpc' = "inflight"
    /\ UNCHANGED <<searchArgs, searchKey, backend, searchResult>>
    /\ SearchFrame

\* Line 122: fetch rejects.
BackendUnreachable ==
    /\ qpc = "inflight"
    /\ backend' = "unreachable"
    /\ searchResult' = SearchError("fetch failed")
    /\ qpc' = "done"
    /\ UNCHANGED <<searchArgs, searchKey, sent>>
    /\ SearchFrame

\* Lines 130-133: a status outside 2xx is thrown as an Error.
BackendRefuses ==
    /\ qpc = "inflight"
    /\ backend' = "status"
    /\ searchResult' = SearchError("Tavily API error: 429 Too Many Requests - slow down")
    /\ qpc' = "done"
    /\ UNCHANGED <<searchArgs, searchKey, sent>>
    /\ SearchFrame

\* Line 135: the body of a 2xx response is not JSON.
BackendGarbled ==
    /\ qpc = "inflight"
    /\ backend' = "garbled"
    /\ searchResult' = SearchError("Unexpected token < in JSON")
    /\ qpc' = "done"
    /\ UNCHANGED <<searchArgs, searchKey, sent>>
    /\ SearchFrame

\* Lines 135-141 and 159: the rows are mapped and returned with the query.
BackendAnswers(data) ==
    /\ qpc = "inflight"
    /\ backend' = "answered"
    /\ searchResult' = SearchFound(QueryOf(searchArgs).s,
                                   [i \in 1..Len(data.results) |-> MappedRow(data.results[i])])
    /\ qpc' = "done"
    /\ UNCHANGED <<searchArgs, searchKey, sent>>
    /\ SearchFrame

SearchNext ==
    \/ QueryRequired
    \/ KeyNotConfigured
    \/ SendSearch
    \/ BackendUnreachable
    \/ BackendRefuses
    \/ BackendGarbled
    \/ \E data \in BackendData : BackendAnswers(data)

SearchSpec == SearchInit /\ [][SearchNext]_vars

\* The query of the arguments is missing or blank.
QueryMissing ==
    IF searchArgs.query.t = "string" THEN Trim(searchArgs.query.s) = <<>> ELSE TRUE
KeyAbsent == searchKey \in {Undefined, ""}
ReportsError == searchResult.kind = "returned" /\ DOMAIN searchResult.value = {"error"}

\* C23: performWebSearch reports failure as a value and never throws: with a
\* missing or blank query, without TAVILY_API_KEY, or when the backing call
\* fails or answers a non-success status, it returns an object with an error
\* field; in the first two cases no request is sent to the backend.
C23_FailureIsAValue ==
    /\ searchResult.kind # "threw"
    /\ Len(sent) <= 1
    /\ qpc = "done" =>
         /\ searchResult.kind = "returned"
         /\ (QueryMissing \/ KeyAbsent) => ReportsError /\ sent = <<>>
         /\ backend \in {"unreachable", "status", "garbled"} => ReportsError
         /\ ReportsError => (QueryMissing \/ KeyAbsent \/ backend \in {"unreachable", "status", "garbled"})

\* The backend answered with a non-success status and the call returned.
C23_Witness == qpc = "done" /\ backend = "status" /\ sent # <<>> /\ ReportsError

(***************************************************************************)
(* Two invocations of runListingAgent interleaved at their await points    *)
(* (the call of callOpenAI at line 326 and of an executor at line 359).    *)
(***************************************************************************)
Invocations == {1, 2}
Prompt(i) == "request " \o ToString(i)

\* Lines 305 and 313: `messages` and `warnings` are declared inside the
\* function, so invocation i works on arrays of its own.
MessagesOfFirst(i) == 1
MessagesOf(i) == i

\* Lines 305-311.
FirstMessages(i) ==
    << Msg("system", SystemPrompt, Null, <<>>),
       Msg("user", "User request: " \o Prompt(i) \o "\nRemember to return only JSON.",
           Null, <<>>) >>

\* The tool calls a model turn of invocation i requests: one for an executor
\* and one for a name that has none.
TurnCalls(i, turn) ==
    << ToolCall("call_" \o ToString(i) \o "_" \o ToString(turn) \o "_1", "search_listings"),
       ToolCall("call_" \o ToString(i) \o "_" \o ToString(turn) \o "_2", "lookup_mls") >>
PairAnswers == {ContentAnswer, ContentEmptyObj}
PairFailures ==
    {"OpenAI API error: 500", "OpenAI API returned no choices",
     "OpenAI content filter blocked the response", "Unexpected finish reason: function_call"}
\* Lines 354-359: what the executor (or the lack of one) makes of a call.
PairToolResult(call) ==
    IF call.name \in ToolExecutors
    THEN ToolError("TAVILY_API_KEY is not configured")
    ELSE UnknownToolResult(call.name)

NewRun == [pc |-> "start", iterations |-> 0, pending |-> <<>>, result |-> NoResult]

PairFrame == UNCHANGED <<agentVars, normVars, flowVars, pairRest>>

PairInit ==
    /\ AgentIdle
    /\ NormIdle
    /\ FlowIdle
    /\ PairRestIdle
    /\ runs = [i \in Invocations |-> NewRun]
    /\ convs = [i \in Invocations |-> <<>>]
    /\ warns = [i \in Invocations |-> <<>>]
    /\ heard = [i \in Invocations |-> <<>>]

\* Lines 252-319: the invocation starts and builds its locals.
PairStart(i) ==
    /\ runs[i].pc = "start"
    /\ convs' = [convs EXCEPT ![MessagesOf(i)] = FirstMessages(i)]
    /\ warns' = [warns EXCEPT ![MessagesOf(i)] = <<>>]
    /\ runs' = [runs EXCEPT ![i].pc = "loop"]
    /\ UNCHANGED heard
    /\ PairFrame

\* Lines 321-331: the loop is entered and callOpenAI awaited.
PairIssue(i) ==
    /\ runs[i].pc = "loop"
    /\ LoopGuard(runs[i].iterations)
    /\ runs' = [runs EXCEPT ![i].iterations = @ + 1, ![i].pc = "calling"]
    /\ UNCHANGED <<convs, warns, heard>>
    /\ PairFrame

\* Lines 332-341 and 398-404: the call failed or its answer cannot be used;
\* a warning is pushed, the loop left and the failed result returned (407-414).
PairModelFails(i, warning) ==
    /\ runs[i].pc = "calling"
    /\ heard' = [heard EXCEPT ![i] = Append(@, [kind |-> "fail", text |-> warning, calls |-> <<>>])]
    /\ warns' = [warns EXCEPT ![MessagesOf(i)] = Append(@, warning)]
    /\ runs' = [runs EXCEPT ![i].pc = "done",
                            ![i].result = FailedResult(warns'[MessagesOf(i)])]
    /\ UNCHANGED convs
    /\ PairFrame

\* Lines 343-351: the answer carries tool calls; the assistant message is pushed.
PairToolTurn(i) ==
    /\ runs[i].pc = "calling"
    /\ LET calls == TurnCalls(i, runs[i].iterations)
       IN  /\ heard' = [heard EXCEPT ![i] = Append(@, [kind |-> "tools", text |-> "", calls |-> calls])]
           /\ convs' = [convs EXCEPT ![MessagesOf(i)] = Append(@, Msg("assistant", "", Null, calls))]
           /\ runs' = [runs EXCEPT ![i].pc = "tools", ![i].pending = calls]
    /\ UNCHANGED warns
    /\ PairFrame

\* Lines 353-366: the next call of the turn is executed (an await) and its
\* tool message pushed; after the last one the loop continues.
PairExecTool(i) ==
    /\ runs[i].pc = "tools"
    /\ LET call == Head(runs[i].pending)
           text == Stringify(PairToolResult(call))
       IN  /\ heard' = [heard EXCEPT ![i] = Append(@, [kind |-> "tool", text |-> text, calls |-> <<call>>])]
           /\ convs' = [convs EXCEPT ![MessagesOf(i)] = Append(@, Msg("tool", text, call.id, <<>>))]
           /\ runs' = [runs EXCEPT ![i].pending = Tail(@),
                                   ![i].pc = IF Len(runs[i].pending) = 1 THEN "loop" ELSE "tools"]
    /\ UNCHANGED warns
    /\ PairFrame

\* Lines 369-396: the answer has no tool calls and finish reason stop.
PairAnswer(i, content) ==
    /\ runs[i].pc = "calling"
    /\ heard' = [heard EXCEPT ![i] = Append(@, [kind |-> "stop", text |-> content, calls |-> <<>>])]
    /\ runs' = [runs EXCEPT ![i].pc = "done",
                            ![i].result = CompletedResult(content, SafeJsonParse(content, EmptyObject),
                                                          warns[MessagesOf(i)])]
    /\ UNCHANGED <<convs, warns>>
    /\ PairFrame

\* Lines 321 and 407-414: six turns are used up.
PairLoopExit(i) ==
    /\ runs[i].pc = "loop"
    /\ ~LoopGuard(runs[i].iterations)
    /\ runs' = [runs EXCEPT ![i].pc = "done", ![i].result = FailedResult(warns[MessagesOf(i)])]
    /\ UNCHANGED <<convs, warns, heard>>
    /\ PairFrame

PairNext ==
    \E i \in Invocations :
        \/ PairStart(i)
        \/ PairIssue(i)
        \/ \E warning \in PairFailures : PairModelFails(i, warning)
        \/ PairToolTurn(i)
        \/ PairExecTool(i)
        \/ \E content \in PairAnswers : PairAnswer(i, content)
        \/ PairLoopExit(i)

PairSpec == PairInit /\ [][PairNext]_vars

(***************************************************************************)
(* The same invocation run alone: its conversation, warnings and result as *)
(* a function of what its own calls answered.                              *)
(***************************************************************************)
RECURSIVE AloneMessages(_, _)
AloneMessages(i, events) ==
    IF events = <<>> THEN FirstMessages(i)
    ELSE LET before == AloneMessages(i, SubSeq(events, 1, Len(events) - 1))
             e == events[Len(events)]
         IN  CASE e.kind = "tools" -> Append(before, Msg("assistant", "", Null, e.calls))
               [] e.kind = "tool" -> Append(before, Msg("tool", e.text, e.calls[1].id, <<>>))
               [] OTHER -> before
RECURSIVE AloneWarnings(_)
AloneWarnings(events) ==
    IF events = <<>> THEN <<>>
    ELSE LET before == AloneWarnings(SubSeq(events, 1, Len(events) - 1))
             e == events[Len(events)]
         IN  IF e.kind = "fail" THEN Append(before, e.text) ELSE before
AloneResult(events) ==
    LET e == events[Len(events)]
    IN  IF e.kind = "stop"
        THEN CompletedResult(e.text, SafeJsonParse(e.text, EmptyObject), AloneWarnings(events))
        ELSE FailedResult(AloneWarnings(events))

Started(i) == runs[i].pc # "start"
BothInFlight == \A i \in Invocations : runs[i].pc \in {"calling", "tools"}

\* C24: when two invocations of runListingAgent interleave at their await
\* points in any order, each invocation's conversation and warnings hold
\* only what its own model and tool calls produced, and each returns the
\* result it would return if run alone.
C24_InvocationsIsolated ==
    \A i \in Invocations :
        /\ Started(i) =>
             /\ convs[i] = AloneMessages(i, heard[i])
             /\ warns[i] = AloneWarnings(heard[i])
        /\ runs[i].pc = "done" => runs[i].result = AloneResult(heard[i])

\* Both invocations ended, the first one after a tool turn that the second
\* one's calls interleaved with, and they differ in outcome.
C24_Witness ==
    /\ runs[1].pc = "done" /\ runs[2].pc = "done"
    /\ Len(heard[1]) >= 4 /\ Len(heard[2]) >= 4
    /\ heard[1][Len(heard[1])].kind = "stop"
    /\ heard[2][Len(heard[2])].kind = "fail"

\* The tool messages that answer the assistant message at index i: one per
\* call descriptor, right after it, in the order of the descriptors, and
\* followed by no further tool message.
AnsweredInOrder(i) ==
    LET calls == messages[i].tool_calls
    IN  /\ i + Len(calls) <= Len(messages)
        /\ \A j \in 1..Len(calls) :
              /\ messages[i + j].role = "tool"
              /\ messages[i + j].tool_call_id = calls[j].id
              /\ Cardinality({ k \in DOMAIN messages :
                                 messages[k].role = "tool"
                                 /\ messages[k].tool_call_id = calls[j].id }) = 1
        /\ i + Len(calls) < Len(messages) => messages[i + Len(calls) + 1].role # "tool"
\* The run is about to issue a model call that is not its first.
AtLaterModelCall == pc = "loop" /\ modelCalls >= 1 /\ LoopGuard(iterations)

\* C25: when a model call after the first is issued, the conversation holds,
\* for every tool call of every earlier assistant message, exactly one tool
\* message tagged with that call's id, after that assistant message, in the
\* order of the call descriptors and before any later assistant message.
C25_ToolResultsBeforeNextCall ==
    AtLaterModelCall =>
        \A i \in DOMAIN messages : messages[i].role = "assistant" => AnsweredInOrder(i)

\* A third model call is about to be issued after two tool turns, the first
\* of them with more than one call.
C25_Witness ==
    /\ AtLaterModelCall
    /\ modelCalls = 2
    /\ messages[3].role = "assistant"
    /\ Len(messages[3].tool_calls) >= 2
    /\ \E i \in 5..Len(messages) : messages[i].role = "assistant"

\* The raw record carries neither an identifier nor a URL.
NoIdentity(item) == IsRecord(item) /\ ~Truthy(MlsOf(item)) /\ ~Truthy(UrlOf(item))
\* The entries of `seen` under a positional key.
PositionalSeen == { e \in seen : SubSeq(e.key, 1, 4) = <<"I", "D", "X", ":">> }
\* The records without identity that the loop has visited.
VisitedWithoutIdentity ==
    { k \in 1..consumed : NoIdentity(items[k]) /\ ~NormalizeThrows(items[k]) }

\* C26: a raw record with neither an identifier nor a URL is never merged
\* with another record: its positional key differs from every key assigned
\* earlier in the pass, so it gets an output position of its own.
C26_PositionalKeyIsFresh ==
    /\ [](npc # "threw" =>
            /\ Cardinality(PositionalSeen) = Cardinality(VisitedWithoutIdentity)
            /\ \A e \in PositionalSeen :
                  /\ e.key = <<"I", "D", "X", ":">> \o NatChars(e.idx)
                  /\ \E k \in VisitedWithoutIdentity : out[e.idx + 1] = Normalized(items[k])
            /\ \A e1, e2 \in seen : (e1.key = e2.key \/ e1.idx = e2.idx) => e1 = e2)
    /\ [][(AtItem /\ MoreItems /\ NoIdentity(Item) /\ consumed' = consumed + 1 /\ npc' = "loop")
            => /\ ~SeenHas(IdentityKey(Item, Len(out)))
               /\ out' = Append(out, Normalized(Item))]_vars

\* Two records without identity were visited, with a keyed record between
\* them, and each of the three records holds its own position.
C26_Witness ==
    /\ npc = "returned"
    /\ Cardinality(VisitedWithoutIdentity) = 2
    /\ Len(normResult) = 3
    /\ NoIdentity(items[1]) /\ NoIdentity(items[3])

(***************************************************************************)
(* The normaliser applied to its own output.                               *)
(***************************************************************************)
\* A returned record given back as a raw record: the nine members of
\* NormalizedListing, under their own names.
AsRaw(listing) ==
    [EmptyRecord EXCEPT !.mls = listing.mls, !.url = listing.url,
                        !.address = listing.address, !.price = listing.price,
                        !.beds = listing.beds, !.baths = listing.baths,
                        !.type = listing.type, !.note_fr = listing.note_fr,
                        !.note_en = listing.note_en]

\* The list a first pass returned is passed to a second call.
FeedBack ==
    /\ pass = 1
    /\ npc = "returned"
    /\ firstResult' = normResult
    /\ pass' = 2
    /\ items' = [i \in 1..Len(normResult) |-> AsRaw(normResult[i])]
    /\ npc' = "loop"
    /\ seen' = {}
    /\ out' = <<>>
    /\ consumed' = 0
    /\ stopped' = FALSE
    /\ ignored' = <<>>
    /\ normResult' = <<>>
    /\ UNCHANGED <<agentVars, flowVars, roundRest>>

RoundNext ==
    \/ MoreItems /\ SkipItem(Item)
    \/ MoreItems /\ VisitThrows(Item)
    \/ MoreItems /\ AcceptItem(Item)
    \/ MoreItems /\ MergeItem(Item)
    \/ (~MoreItems \/ stopped) /\ ReturnListings
    \/ FeedBack

RoundSpec == ListInit /\ [][RoundNext]_vars

\* No two records of the list share an identifier (letter case aside).
UniqueIdentifiers(listings) ==
    \A i, j \in DOMAIN listings :
        i # j => ToUpperCase(JsString(listings[i].mls)) # ToUpperCase(JsString(listings[j].mls))

\* C27: feeding the normaliser's output back in as raw input yields the same
\* sequence of records, nothing merged and no field changed, whenever the
\* identifiers in that output are unique.
C27_Idempotent ==
    (pass = 2 /\ UniqueIdentifiers(firstResult)) =>
        /\ npc # "threw"
        /\ npc = "returned" => normResult = firstResult

\* What does hold of the second pass: the records keep their number and
\* order, and url, address, price, beds, type and the notes are unchanged.
SecondPassKeeps ==
    (pass = 2 /\ npc = "returned" /\ UniqueIdentifiers(firstResult)) =>
        /\ Len(normResult) = Len(firstResult)
        /\ \A i \in DOMAIN normResult :
              /\ \A f \in {"url", "address", "price", "beds", "type", "note_fr", "note_en"} :
                    normResult[i][f] = firstResult[i][f]
              /\ normResult[i].mls # firstResult[i].mls => firstResult[i].mls = JsStr(<<>>)
              /\ normResult[i].baths # firstResult[i].baths => firstResult[i].baths = JsNaN

(***************************************************************************)
(* The normalizeAndDedupeListings tool of the SDK workflow (part_002,      *)
(* lines 119-186), next to the plain function of part_001.                 *)
(***************************************************************************)
\* Lines 131-133 and 135: the locals `mls` and `url` of the tool.
ToolMlsOf(item) ==
    LET mlsRaw == FirstOf(<<item.mls, item.MLS, item.listingId, item.listing_id, item.MLSreg>>)
    IN  IF Truthy(mlsRaw) THEN JsStr(Trim(JsString(mlsRaw))) ELSE JsAbsent
ToolUrlOf(item) == IF Truthy(item.url) THEN JsStr(Trim(JsString(item.url))) ELSE JsAbsent
ToolText(v) == IF Truthy(v) THEN JsStr(Trim(JsString(v))) ELSE JsAbsent

\* Lines 145-148: the evaluation of `price` throws when an alias holds a
\* value without a replace method; reading a member of a null item throws.
ToolVisitThrows(item) ==
    \/ ~item.isObject
    \/ item.price = JsAbsent
        /\ NumberFromPriceLikeThrows(FirstOf(<<item.priceText, item.price_str, item.askingPrice>>))

\* Lines 150-160: the local `normalized`.
ToolNormalized(item) ==
    [mls |-> IF ToolMlsOf(item) # JsAbsent THEN ToolMlsOf(item) ELSE JsStr(Sentinel),
     url |-> ToolUrlOf(item),
     address |-> ToolText(item.address),
     price |-> IF item.price # JsAbsent THEN JsNumber(item.price)
               ELSE NumberFromPriceLike(FirstOf(<<item.priceText, item.price_str,
                                                  item.askingPrice>>)),
     beds |-> IF item.beds # JsAbsent
              THEN NumberOfText(KeepDigits(JsString(item.beds))) ELSE JsAbsent,
     baths |-> IF item.baths # JsAbsent
               THEN NumberOfText(KeepDigitsAndDots(JsString(item.baths))) ELSE JsAbsent,
     type |-> ToolText(item.type),
     note_fr |-> ToolText(item.note_fr),
     note_en |-> ToolText(item.note_en)]

\* Line 162: the local `key`.
ToolKey(item, outLength) ==
    IF Truthy(ToolMlsOf(item)) THEN <<"M", "L", "S", ":">> \o ToUpperCase(ToolMlsOf(item).s)
    ELSE IF Truthy(ToolUrlOf(item)) THEN <<"U", "R", "L", ":">> \o ToolUrlOf(item).s
    ELSE <<"I", "D", "X", ":">> \o NatChars(outLength)

\* `seen` is a plain object: a read finds an own member or one inherited
\* from Object.prototype.
Chars_constructor == <<"c", "o", "n", "s", "t", "r", "u", "c", "t", "o", "r">>
Chars_toString == <<"t", "o", "S", "t", "r", "i", "n", "g">>
InheritedMembers == {Chars_constructor, Chars_toString}
\* Line 163: `seen[key] == null` is false.
ToolSeenHasTruthy(seenObject, key) ==
    \/ key \in InheritedMembers
    \/ \E e \in seenObject : e.key = key /\ e.idx # 0
ToolSeenHas(seenObject, key) ==
    \/ key \in InheritedMembers
    \/ \E e \in seenObject : e.key = key

\* Lines 167-178: the object written over out[idx].
ToolMerged(prior, normalized) ==
    [prior EXCEPT !.address = Coalesce(prior.address, normalized.address),
                  !.price = Coalesce(prior.price, normalized.price),
                  !.beds = Coalesce(prior.beds, normalized.beds),
                  !.baths = Coalesce(prior.baths, normalized.baths),
                  !.type = Coalesce(prior.type, normalized.type),
                  !.note_fr = Coalesce(prior.note_fr, normalized.note_fr),
                  !.note_en = Coalesce(prior.note_en, normalized.note_en)]

\* The literal 12 of lines 181 and 184.
ToolCap == 12

\* Lines 130-181: one turn of the for loop on the locals `seen` and `out`.
ToolVisit(st, item) ==
    IF ToolVisitThrows(item) THEN [st EXCEPT !.threw = TRUE]
    ELSE LET key == ToolKey(item, Len(st.out))
             normalized == ToolNormalized(item)
             after ==
                IF ~ToolSeenHas(st.seen, key)
                THEN [st EXCEPT !.seen = @ \cup {[key |-> key, idx |-> Len(st.out)]},
                                !.out = Append(@, normalized)]
                ELSE LET idx == (CHOOSE e \in st.seen : e.key = key).idx
                     IN  [st EXCEPT !.out[idx + 1] = ToolMerged(st.out[idx + 1], normalized)]
         IN  [after EXCEPT !.stopped = Len(after.out) >= ToolCap]

RECURSIVE ToolLoop(_, _)
ToolLoop(list, st) ==
    IF list = <<>> \/ st.threw \/ st.stopped THEN st
    ELSE ToolLoop(Tail(list), ToolVisit(st, Head(list)))

\* Lines 126-185: execute.
ToolExecute(list) ==
    LET st == ToolLoop(list, [seen |-> {}, out |-> <<>>, threw |-> FALSE, stopped |-> FALSE])
    IN  IF st.threw THEN [kind |-> "threw"]
        ELSE [kind |-> "returned",
              listings |-> SubSeq(st.out, 1, IF Len(st.out) < ToolCap THEN Len(st.out) ELSE ToolCap)]

\* The tool is executed on the list the plain function is given.
ExecuteTool ==
    /\ toolOutput.kind = "none"
    /\ toolOutput' = ToolExecute(items)
    /\ UNCHANGED <<agentVars, normVars, flowVars, toolRest>>

\* Lists that fill the output: a keyed record, a second record and twelve
\* records without identity.
LongLists ==
    { <<ItemA, second>> \o [i \in 1..MAX_LISTINGS |-> ItemBare] :
        second \in {ItemADup, ItemUrl, ItemBare} }

TwinInit ==
    /\ AgentIdle
    /\ FlowIdle
    /\ AuxIdle
    /\ \E list \in RawLists \cup LongLists : NormStart(list)

TwinNext ==
    \/ MoreItems /\ SkipItem(Item)
    \/ MoreItems /\ VisitThrows(Item)
    \/ MoreItems /\ AcceptItem(Item)
    \/ MoreItems /\ MergeItem(Item)
    \/ (~MoreItems \/ stopped) /\ ReturnListings
    \/ ExecuteTool

TwinSpec == TwinInit /\ [][TwinNext]_vars

\* Every raw item of the list is an object.
ObjectShaped == \A i \in DOMAIN items : IsRecord(items[i])

\* C30: the plain function and the SDK tool are equivalent: on every list of
\* object-shaped raw records they return the same sequence of records, field
\* for field (and one throws exactly when the other does).
C30_TwinsAgree ==
    (ObjectShaped /\ toolOutput.kind # "none" /\ npc \in {"returned", "threw"}) =>
        /\ (npc = "threw") = (toolOutput.kind = "threw")
        /\ npc = "returned" => toolOutput.listings = normResult

\* Both have returned twelve records from a list of fourteen in which the
\* second record was merged into the first.
C30_Witness ==
    /\ npc = "returned"
    /\ toolOutput.kind = "returned"
    /\ Len(items) = MAX_LISTINGS + 2
    /\ items[2] = ItemADup
    /\ Len(normResult) = MAX_LISTINGS

(***************************************************************************)
(* Progress of runListingAgent: every pending model call and tool          *)
(* execution eventually returns or fails, so a step that can be taken is   *)
(* eventually taken.                                                       *)
(***************************************************************************)
FairSpec == Spec /\ WF_vars(Next)

\* C29: every run of runListingAgent terminates: the loop eventually reaches
\* Completed or Failed and returns a result.
C29_EventuallyReturns == <>(pc = "done" /\ outcome \in {"Completed", "Failed"} /\ result # NoResult)

\* What does hold: every run ends, by returning or by throwing.
RunEnds == <>(pc \in {"done", "threw"})

(***************************************************************************)
(* Tool calls and the finish reason (agent.ts lines 343-369).              *)
(***************************************************************************)
\* The response in hand carries at least one tool call.
ToolTurnOpen == choice.kind = "choice" /\ choice.ncalls > 0

\* The assistant message of the turn in hand: the last one of the conversation.
TurnMessage ==
    CHOOSE i \in DOMAIN messages :
        /\ messages[i].role = "assistant"
        /\ \A k \in DOMAIN messages : messages[k].role = "assistant" => k <= i

\* The response in hand is being handled as a tool turn: the run goes on, its
\* assistant message is appended with the calls, the calls taken so far are
\* answered behind it in order, and the rest are waiting.
HandledAsToolTurn ==
    /\ pc = "tools"
    /\ outcome = "Running"
    /\ pending # <<>>
    /\ \E i \in DOMAIN messages : messages[i].role = "assistant"
    /\ LET calls == messages[TurnMessage].tool_calls
           taken == choice.ncalls - Len(pending)
       IN  /\ Len(calls) = choice.ncalls
           /\ Len(messages) = TurnMessage + taken
           /\ \A j \in 1..taken :
                /\ messages[TurnMessage + j].role = "tool"
                /\ messages[TurnMessage + j].tool_call_id = calls[j].id
           /\ \A j \in 1..Len(pending) : pending[j] = calls[taken + j]

\* C31: a response that carries at least one tool call is handled as a tool
\* turn whatever its finish_reason (assistant message appended, every call
\* executed, next turn taken), and a run ends Completed only on a response
\* with no tool calls.
C31_ToolCallsTakePrecedence ==
    /\ ToolTurnOpen => HandledAsToolTurn
    /\ outcome = "Completed" => choice.kind = "choice" /\ choice.ncalls = 0

\* What does hold: the finish reason never diverts a response with tool calls.
\* Such a response is handled as a tool turn until a call descriptor without
\* `function` throws, and Completed is reached on responses without calls only.
PrecedenceOverFinishReason ==
    /\ ToolTurnOpen => pc \in {"tools", "threw"} /\ outcome \in {"Running", "Threw"}
    /\ ToolTurnOpen /\ pc = "tools" => HandledAsToolTurn
    /\ outcome = "Completed" => choice.kind = "choice" /\ choice.ncalls = 0

\* A tool turn under way on a response whose finish reason is stop, length or
\* content_filter, with one call answered and another waiting.
ToolTurnDespiteFinishReason ==
    /\ ToolTurnOpen
    /\ HandledAsToolTurn
    /\ choice.finish_reason \in {"stop", "length", "content_filter"}
    /\ Len(pending) < choice.ncalls

(***************************************************************************)
(* A run without OPENAI_API_KEY (agent.ts lines 252-263).                  *)
(***************************************************************************)
\* process.env.OPENAI_API_KEY is unset, or set to the empty string.
ApiKeyNotConfigured == apiKey \in {Undefined, ""}

\* The value of lines 255-262.
NotConfiguredResult ==
    [listings |-> <<>>, sources |-> <<>>, notes_en |-> Null, notes_fr |-> Null,
     warnings |-> <<"OPENAI_API_KEY is not configured">>, rawResponse |-> Null]

\* C32: when OPENAI_API_KEY is not configured, runListingAgent issues no model
\* call and no tool call, and returns the Failed-shaped result whose warnings
\* are exactly <<"OPENAI_API_KEY is not configured">>.
C32_NoKeyNoCalls ==
    ApiKeyNotConfigured =>
        /\ modelCalls = 0
        /\ toolCalls = 0
        /\ toolExecs = 0
        /\ messages = <<>>
        /\ pc \in {"start", "done"}
        /\ pc = "done" => outcome = "Failed" /\ result = NotConfiguredResult

\* A run with the key set to the empty string has returned.
C32_Witness ==
    /\ apiKey = ""
    /\ pc = "done"
    /\ result = NotConfiguredResult

\* The same with the key unset.
C32_WitnessUnset ==
    /\ apiKey = Undefined
    /\ pc = "done"
    /\ result = NotConfiguredResult

(***************************************************************************)
(* Warnings and the outcome of a run (agent.ts lines 313-335, 353-396).    *)
(***************************************************************************)
\* C33: a run of runListingAgent that ends Completed (non-null rawResponse)
\* returns an empty warnings sequence: a warning is recorded only on a path
\* that ends Failed, and errors of tools stay in the tool-result messages.
C33_CompletedHasNoWarnings ==
    /\ outcome = "Completed" =>
          /\ result.rawResponse # Null
          /\ result.warnings = <<>>
    /\ warnings # <<>> =>
          /\ outcome = "Failed"
          /\ result.rawResponse = Null
          /\ result.warnings = warnings
    /\ pc \in {"loop", "tools"} => warnings = <<>>

\* A run has ended Completed after a tool turn in which a call named a tool
\* without executor and was answered with an error.
C33_Witness ==
    /\ outcome = "Completed"
    /\ toolCalls > toolExecs
    /\ result.warnings = <<>>

\* A tool turn goes on after an unknown tool was answered with an error, and
\* nothing was recorded in warnings.
ToolErrorLeavesWarnings ==
    /\ pc = "tools"
    /\ \E i \in DOMAIN messages :
          /\ messages[i].role = "tool"
          /\ messages[i].content = Stringify(UnknownToolResult("lookup_mls"))
    /\ warnings = <<>>

====
